---------------------------- MODULE Spec2Model ----------------------------
(***************************************************************************)
(* Model of the extensibility core of ai-market-research: the EventBus     *)
(* (src/src/core/microkernel.ts) and the ServiceContainer                  *)
(* (src/unnamed/part_006).                                                 *)
(*                                                                         *)
(* JavaScript runs one logical caller at a time and switches callers only  *)
(* at an await.  Each logical caller is a task with a call stack of        *)
(* frames; `running` names the task that is executing synchronous code (0  *)
(* when every task is parked at an await), and only that task may step.    *)
(***************************************************************************)
EXTENDS Integers, Sequences, FiniteSets, TLC

\* ------------------------------------------------------------- bounds
NTasks == 2
MaxEvents == 4
MaxSubs == 2
MaxFail == 1
MaxConcSubs == 1
MaxConcEvents == 5
MaxOrderEvents == 3
MaxOrderSubs == 3
MaxHist == 2
MaxHistEvents == 3
MaxHistSubs == 1

MaxSvcCalls == 5
MaxPlugCalls == 3
MaxHookFail == 1
MaxLcHooks == 2
MaxLcCalls == 4
MaxLcPhases == 1
MaxKernels == 2
MaxGetService == 2
MaxKernelCalls == 4
MaxDepCalls == 4
MaxUnsubEvents == 3
MaxUnsubSubs == 2
MaxUnsubs == 2
MaxLiveEvents == 4
MaxConcPlugCalls == 2
MaxConcLcCalls == 2
MaxConcLcHooks == 1
MaxConcLcEvents == 16
MaxValidations == 1

DefaultMaxHistorySize == 1000

Tasks == 1..NTasks
Types == {"x", "y"}
ConcTypes == {"x"}
Priorities == {1, 5}
SvcTypes == {"service.registered", "service.resolved", "service.unregistered"}
PluginTypes == {"plugin.loading", "plugin.loaded", "plugin.load.error",
                "plugin.registering", "plugin.registered", "plugin.register.error",
                "plugin.unloading", "plugin.unloaded", "plugin.unload.error",
                "plugin.status.changed"}
LifecycleTypes == {"lifecycle.phase.registered", "lifecycle.hook.registered",
                   "lifecycle.starting", "lifecycle.started", "lifecycle.start.error",
                   "lifecycle.stopping", "lifecycle.stopped", "lifecycle.stop.error",
                   "lifecycle.phase.starting", "lifecycle.phase.completed",
                   "lifecycle.phase.error", "lifecycle.hook.completed",
                   "lifecycle.hook.error"}
KernelTypes == {"microkernel.starting", "microkernel.started", "microkernel.start.error",
                "microkernel.stopping", "microkernel.stopped", "microkernel.stop.error",
                "microkernel.plugin.loaded", "microkernel.plugin.load.error",
                "microkernel.plugin.registered", "microkernel.plugin.register.error",
                "microkernel.plugin.unloaded", "microkernel.plugin.unload.error"}
AllTypes == Types \cup SvcTypes \cup PluginTypes \cup LifecycleTypes \cup KernelTypes
SvcIds == {"A", "B"}
\* dependency lists: no id twice, at most two ids
DepLists == {<<>>} \cup {<<a>> : a \in SvcIds}
              \cup {d \in {<<a, b>> : a \in SvcIds, b \in SvcIds} : d[1] # d[2]}

\* three services, so that one can declare two dependencies other than itself
OrderIds == {"A", "B", "C"}
OrderDepLists == {<<>>, <<"A">>, <<"B">>, <<"C">>, <<"B", "C">>, <<"C", "B">>}

\* the fixed ids of registerCoreServices, in registration order
CoreIds == <<"microkernel", "eventBus", "pluginRegistry", "serviceContainer",
            "configManager", "lifecycleManager">>

PluginIds == {"P1", "P2"}
PluginDepLists == {<<>>} \cup {<<a>> : a \in PluginIds}
                    \cup {d \in {<<a, b>> : a \in PluginIds, b \in PluginIds} : d[1] # d[2]}
\* initializeDefaultPhases: the six default phases, in registration order
DefaultPhases == <<"pre-init", "config", "services", "plugins", "post-init", "ready">>
\* phases a caller registers, and the phases hooks are attached to
ExtraPhases == {"critical"}
HookPhases == {"config", "critical"}
ExtraOrders == {1, 7}
\* type PluginStatus
PluginStatus == {"loading", "active", "error", "disabled", "unloaded"}

\* ------------------------------------------------------------- state
VARIABLES
  handlers,        \* EventBus.handlers: event type -> subscriptions
  handlerKeys,     \* insertion order of the keys of EventBus.handlers
  globalHandlers,  \* EventBus.globalHandlers
  eventHistory,    \* EventBus.eventHistory (event ids)
  maxHistorySize,  \* EventBus.maxHistorySize
  isProcessing,    \* EventBus.isProcessing
  pendingEvents,   \* EventBus.pendingEvents (event ids)
  evType,          \* the events stamped so far: id -> type
  subOf,           \* the subscriptions created so far: handler -> subscription
  stack,           \* task -> call stack (processEvent and handler frames)
  running,         \* task executing synchronous code, or 0
  \* observations of the execution, read by the properties only
  invoked,         \* id -> handlers invoked for the event, in order
  done,            \* events whose handlers have all completed
  parent,          \* id -> event whose handler published it (0: top level)
  queued,          \* events that went through pendingEvents
  returned,        \* events whose top-level publish call has returned
  failed,          \* <<event, handler>> invocations that threw
  subsAtStart,     \* id -> handlers subscribed when its delivery began
  dirty,           \* events whose delivery overlapped a (un)subscribe
  sinceClear,      \* events published since the last clearHistory
  resized,         \* setMaxHistorySize called since the last clearHistory
  lastUnsub,       \* the latest unsubscribe call and what it returned
  \* ServiceContainer
  services,        \* ServiceContainer.services: id -> definition
  serviceKeys,     \* insertion order of the keys of ServiceContainer.services
  resolving,       \* ServiceContainer.resolving
  rstack,          \* task -> chain of resolve calls in progress
  thrown,          \* task -> error travelling up its chain of resolve calls
  nextObj,         \* number of objects made so far (object identity)
  \* observations of the container, read by the properties only
  factoryCalls,    \* id -> invocations of its factory
  firstInst,       \* id -> what its first successful resolve returned
  callsAtFirst,    \* id -> factoryCalls[id] when that resolve returned
  lastRet,         \* the latest successful resolve, nested ones included
  svcResult,       \* the latest call made on the container and its outcome
  validation,      \* the latest validateDependencies call and what it returned
  \* PluginRegistry
  plugins,         \* PluginRegistry.plugins: id -> PluginInfo
  pluginKeys,      \* insertion order of the keys of PluginRegistry.plugins
  pcall,           \* task -> the registry call it is in, and where
  plugClock,       \* number of PluginInfo objects made so far (loadTime)
  \* observations of the registry, read by the properties only
  initCalls,       \* id -> invocations of init on instances of that id
  plugResult,      \* the latest call made on the registry and its outcome
  \* LifecycleManager and Microkernel
  phases,          \* LifecycleManager.phases: name -> phase
  phaseKeys,       \* insertion order of the keys of LifecycleManager.phases
  hooks,           \* LifecycleManager.hooks: phase name -> hooks
  phaseStatus,     \* LifecycleManager.status: phase name -> status
  lcRunning,       \* LifecycleManager.isRunning
  kernelRunning,   \* Microkernel.isRunning
  lcall,           \* task -> the start or stop call it is in, and where
  nextHook,        \* number of hooks registered so far (hook ids)
  \* observations of the lifecycle, read by the properties only
  lcTrace,         \* "start" / "stop" -> what the latest such call executed
  hookFailures,    \* number of hook invocations that failed
  lcResult,        \* the latest start or stop call and its outcome
  \* Microkernel construction
  kernels,         \* the Microkernel objects constructed so far, in order
  \* Microkernel plugin operations
  kcall,           \* task -> the kernel plugin operation it is in
  kplugResult      \* the latest kernel plugin operation and its outcome

busVars == <<handlers, handlerKeys, globalHandlers, eventHistory, maxHistorySize,
             isProcessing, pendingEvents, evType, subOf, stack, running>>
obsVars == <<invoked, done, parent, queued, returned, failed, subsAtStart,
             dirty, sinceClear, resized, lastUnsub>>
svcVars == <<services, serviceKeys, resolving, rstack, thrown, nextObj>>
svcObsVars == <<factoryCalls, firstInst, callsAtFirst, lastRet, svcResult, validation>>
svcAll == <<svcVars, svcObsVars>>
plugVars == <<plugins, pluginKeys, pcall, plugClock>>
plugObsVars == <<initCalls, plugResult>>
plugAll == <<plugVars, plugObsVars>>
lcVars == <<phases, phaseKeys, hooks, phaseStatus, lcRunning, kernelRunning, lcall,
           nextHook>>
lcObsVars == <<lcTrace, hookFailures, lcResult>>
lcAll == <<lcVars, lcObsVars>>
kernAll == <<kernels, kcall, kplugResult>>
extAll == <<plugAll, lcAll, kernAll>>
vars == <<busVars, obsVars, svcAll, extAll>>

\* ------------------------------------------------------------- helpers
Min(a, b) == IF a < b THEN a ELSE b
Max(a, b) == IF a > b THEN a ELSE b

Range(s) == {s[i] : i \in 1..Len(s)}

\* what a splice that removes nothing would leave
RemoveNothing(s, i) == s

\* Array.prototype.splice(index, 1) with a 1-based index
RemoveAt(s, i) == SubSeq(s, 1, i - 1) \o SubSeq(s, i + 1, Len(s))

\* Array.prototype.slice(start): a negative start counts from the end
JsSlice(arr, start) ==
  LET len == Len(arr)
      k == IF start < 0 THEN Max(len + start, 0) ELSE Min(start, len)
  IN SubSeq(arr, k + 1, len)

\* Array.prototype.findIndex(sub => sub.id === id), 1-based, 0 when absent
FindIndex(subs, id) ==
  IF \E i \in 1..Len(subs) : subs[i].id = id
  THEN CHOOSE i \in 1..Len(subs) :
         subs[i].id = id /\ \A j \in 1..(i - 1) : subs[j].id # id
  ELSE 0

\* insert one element behind every element the comparator does not put after it
InsertByPriority(sorted, sub) ==
  LET before == {i \in 0..Len(sorted) :
                   \A j \in 1..i : sorted[j].priority >= sub.priority}
      k == CHOOSE i \in before : \A j \in before : j <= i
  IN SubSeq(sorted, 1, k) \o <<sub>> \o SubSeq(sorted, k + 1, Len(sorted))

\* the comparator reversed: a.priority - b.priority
RECURSIVE SortAscending(_)
SortAscending(subs) ==
  IF subs = <<>> THEN <<>>
  ELSE LET rest == SortAscending(SubSeq(subs, 1, Len(subs) - 1))
           sub == subs[Len(subs)]
           before == {i \in 0..Len(rest) :
                        \A j \in 1..i : rest[j].priority <= sub.priority}
           k == CHOOSE i \in before : \A j \in before : j <= i
       IN SubSeq(rest, 1, k) \o <<sub>> \o SubSeq(rest, k + 1, Len(rest))

\* subscriptions.sort((a, b) => b.priority - a.priority): a stable sort
RECURSIVE SortByPriority(_)
SortByPriority(subs) ==
  IF subs = <<>> THEN <<>>
  ELSE InsertByPriority(SortByPriority(SubSeq(subs, 1, Len(subs) - 1)),
                        subs[Len(subs)])

\* ------------------------------------------------------------- frames
PeFrame(e) == [k |-> "pe", ev |-> e, ph |-> "global", i |-> 0, q |-> <<>>, h |-> 0]
HFrame(e, sub) == [k |-> "h", ev |-> e, ph |-> "run", i |-> 0, q |-> <<>>, h |-> sub.h]

Top(t) == stack[t][Len(stack[t])]
Pop(t) == SubSeq(stack[t], 1, Len(stack[t]) - 1)
ReplaceTop(t, f) == Append(Pop(t), f)

Frames == UNION {Range(stack[t]) : t \in Tasks}

\* a task may step when it holds the thread, or when the thread is free and
\* the task is parked at an await
CanRun(t) == running = t \/ (running = 0 /\ stack[t] # <<>>)
TopIs(t, kind) == stack[t] # <<>> /\ Top(t).k = kind

\* events whose handler loops are running
InFlight == {f.ev : f \in {g \in Frames : g.k = "pe" /\ g.ph \in {"global", "typed"}}}

\* for (const subscription of arr) if (subscription.active): the array is read by
\* index on every step of the loop
NextActive(arr, i) ==
  IF \E j \in (i + 1)..Len(arr) : arr[j].active
  THEN CHOOSE j \in (i + 1)..Len(arr) :
         arr[j].active /\ \A m \in (i + 1)..(j - 1) : ~arr[m].active
  ELSE 0

\* ------------------------------------------------------------- EventBus
\* what a mutation that drops the oldest entry too early would do
AddToHistoryDropNewest(hist, e, max) ==
  IF Len(hist) + 1 > max THEN hist ELSE Append(hist, e)

AddToHistory(hist, e, max) ==
  LET pushed == Append(hist, e)
  IN IF Len(pushed) > max THEN Tail(pushed) ELSE pushed

NeverQueue == FALSE

\* publish: if (this.isProcessing) the event is queued
ShouldQueue == isProcessing

\* one try/catch around both loops: the first error ends the delivery
AbortOnHandlerError(f) ==
  [f EXCEPT !.ph = "typed", !.i = Len(handlers[evType[f.ev]])]

\* processEvent after a handler threw: the error is caught per handler and the
\* loop goes on
AfterHandlerError(f) == f

Undefined == [kind |-> "undefined", n |-> 0]
Falsy == [kind |-> "falsy", n |-> 0]
Object(n) == [kind |-> "object", n |-> n]

NoCall == [n |-> 0, op |-> "none", id |-> "", outcome |-> "none", v |-> Undefined]

\* position of a name in a list of names
FindName(names, name) == CHOOSE i \in 1..Len(names) : names[i] = name

NoLifecycleCall == [op |-> "none", kernel |-> FALSE, pc |-> "", order |-> <<>>, pi |-> 0,
                    enabledHooks |-> <<>>, hi |-> 0, err |-> ""]
NoLifecycleResult == [n |-> 0, op |-> "none", kernel |-> FALSE, outcome |-> "none"]

\* instance: null
Null == [kind |-> "null", init |-> "none", cleanup |-> "none"]
\* a plugin object: what its init and its cleanup do ("none": no such method)
PluginObject(init, cleanup) == [kind |-> "plugin", init |-> init, cleanup |-> cleanup]

NoInfo == [dependencies |-> <<>>, instance |-> Null, status |-> "none", loadTime |-> 0,
           errorCount |-> 0, lastError |-> ""]
NoPluginCall == [op |-> "none", id |-> "", pc |-> "", manifest |-> <<>>, instance |-> Null,
                 err |-> "", info |-> NoInfo]
NoKernelCall == [op |-> "none", id |-> "", n |-> 0]
NoKernelResult == [n |-> 0, op |-> "none", id |-> "", outcome |-> "none"]
NoPluginResult == [n |-> 0, op |-> "none", id |-> "", outcome |-> "none", info |-> NoInfo,
                   manifest |-> <<>>, forceReload |-> FALSE, before |-> <<>>]

Init ==
  /\ services = <<>>
  /\ serviceKeys = <<>>
  /\ resolving = {}
  /\ rstack = [t \in Tasks |-> <<>>]
  /\ thrown = [t \in Tasks |-> "none"]
  /\ nextObj = 0
  /\ factoryCalls = [id \in SvcIds \cup OrderIds \cup Range(CoreIds) |-> 0]
  /\ firstInst = [id \in SvcIds \cup OrderIds \cup Range(CoreIds) |-> Undefined]
  /\ callsAtFirst = [id \in SvcIds \cup OrderIds \cup Range(CoreIds) |-> 0]
  /\ lastRet = [id |-> "", v |-> Undefined]
  /\ svcResult = NoCall
  /\ validation = [n |-> 0, valid |-> TRUE, cycles |-> <<>>]
  /\ plugins = <<>>
  /\ pluginKeys = <<>>
  /\ pcall = [t \in Tasks |-> NoPluginCall]
  /\ plugClock = 0
  /\ initCalls = [id \in PluginIds |-> 0]
  /\ plugResult = NoPluginResult
  /\ phases = [name \in Range(DefaultPhases) |->
                 [order |-> FindName(DefaultPhases, name) - 1]]
  /\ phaseKeys = DefaultPhases
  /\ hooks = [name \in HookPhases |-> <<>>]
  /\ phaseStatus = <<>>
  /\ lcRunning = FALSE
  /\ kernelRunning = FALSE
  /\ lcall = [t \in Tasks |-> NoLifecycleCall]
  /\ nextHook = 0
  /\ lcTrace = [op \in {"start", "stop"} |-> <<>>]
  /\ hookFailures = 0
  /\ lcResult = NoLifecycleResult
  /\ kernels = <<>>
  /\ kcall = [t \in Tasks |-> NoKernelCall]
  /\ kplugResult = NoKernelResult
  /\ handlers = [ty \in AllTypes |-> <<>>]
  /\ handlerKeys = <<>>
  /\ globalHandlers = <<>>
  /\ eventHistory = <<>>
  /\ maxHistorySize = DefaultMaxHistorySize
  /\ isProcessing = FALSE
  /\ pendingEvents = <<>>
  /\ evType = <<>>
  /\ subOf = <<>>
  /\ stack = [t \in Tasks |-> <<>>]
  /\ running = 0
  /\ invoked = <<>>
  /\ done = {}
  /\ parent = <<>>
  /\ queued = {}
  /\ returned = {}
  /\ failed = {}
  /\ subsAtStart = <<>>
  /\ dirty = {}
  /\ sinceClear = <<>>
  /\ resized = FALSE
  /\ lastUnsub = [n |-> 0, id |-> 0, ret |-> FALSE]

\* handlers that listen to an event of type ty
Listeners(ty) == {s.h : s \in Range(globalHandlers) \cup Range(handlers[ty])}

\* subscribe(eventType, handler, priority, subscriptionId); id = 0: none supplied,
\* generateId() makes a fresh one
Subscribe(eventType, priority, id) ==
  /\ running = 0
  /\ LET h == Len(subOf) + 1
         sub == [id |-> IF id = 0 THEN h ELSE id, eventType |-> eventType,
                 h |-> h, priority |-> priority, active |-> TRUE]
     IN /\ handlers' = [handlers EXCEPT
                          ![eventType] = SortByPriority(Append(@, sub))]
        /\ handlerKeys' = IF eventType \in Range(handlerKeys) THEN handlerKeys
                          ELSE Append(handlerKeys, eventType)
        /\ subOf' = Append(subOf, sub)
  /\ dirty' = dirty \cup InFlight
  /\ UNCHANGED <<globalHandlers, eventHistory, maxHistorySize, isProcessing,
                 pendingEvents, evType, stack, running>>
  /\ UNCHANGED <<invoked, done, parent, queued, returned, failed,
                 subsAtStart, sinceClear, resized, lastUnsub>>
  /\ UNCHANGED <<svcAll, extAll>>

SubscribeToAll(priority) ==
  /\ running = 0
  /\ LET h == Len(subOf) + 1
         sub == [id |-> h, eventType |-> "*", h |-> h, priority |-> priority,
                 active |-> TRUE]
     IN /\ globalHandlers' = SortByPriority(Append(globalHandlers, sub))
        /\ subOf' = Append(subOf, sub)
  /\ dirty' = dirty \cup InFlight
  /\ UNCHANGED <<handlers, handlerKeys, eventHistory, maxHistorySize, isProcessing,
                 pendingEvents, evType, stack, running>>
  /\ UNCHANGED <<invoked, done, parent, queued, returned, failed,
                 subsAtStart, sinceClear, resized, lastUnsub>>
  /\ UNCHANGED <<svcAll, extAll>>

\* first key of the handlers map, in insertion order, holding the id
FirstKeyWith(id) ==
  LET hits == {i \in 1..Len(handlerKeys) : FindIndex(handlers[handlerKeys[i]], id) # 0}
  IN IF hits = {} THEN 0 ELSE CHOOSE i \in hits : \A j \in hits : i <= j

Unsubscribe(id) ==
  /\ running = 0
  /\ LET ki == FirstKeyWith(id)
         gi == FindIndex(globalHandlers, id)
     IN IF ki # 0
        THEN /\ handlers' = [handlers EXCEPT ![handlerKeys[ki]] =
                               RemoveAt(@, FindIndex(@, id))]
             /\ lastUnsub' = [n |-> lastUnsub.n + 1, id |-> id, ret |-> TRUE]
             /\ dirty' = dirty \cup InFlight
             /\ UNCHANGED globalHandlers
        ELSE IF gi # 0
        THEN /\ globalHandlers' = RemoveAt(globalHandlers, gi)
             /\ lastUnsub' = [n |-> lastUnsub.n + 1, id |-> id, ret |-> TRUE]
             /\ dirty' = dirty \cup InFlight
             /\ UNCHANGED handlers
        ELSE /\ lastUnsub' = [n |-> lastUnsub.n + 1, id |-> id, ret |-> FALSE]
             /\ UNCHANGED <<handlers, globalHandlers, dirty>>
  /\ UNCHANGED <<handlerKeys, eventHistory, maxHistorySize, isProcessing,
                 pendingEvents, evType, subOf, stack, running>>
  /\ UNCHANGED <<invoked, done, parent, queued, returned, failed,
                 subsAtStart, sinceClear, resized>>
  /\ UNCHANGED <<svcAll, extAll>>

\* publish(event) called by task t; from = the event whose handler calls it, 0 for
\* a top-level caller.  The caller awaits the returned promise.
DoPublish(t, ty, from) ==
  LET e == Len(evType) + 1
  IN /\ evType' = Append(evType, ty)
     /\ parent' = Append(parent, from)
     /\ invoked' = Append(invoked, <<>>)
     /\ eventHistory' = AddToHistory(eventHistory, e, maxHistorySize)
     /\ sinceClear' = Append(sinceClear, e)
     /\ IF ShouldQueue
        THEN /\ pendingEvents' = Append(pendingEvents, e)
             /\ queued' = queued \cup {e}
             /\ subsAtStart' = Append(subsAtStart, {})
             /\ returned' = IF from = 0 THEN returned \cup {e} ELSE returned
             /\ running' = 0
             /\ UNCHANGED <<stack, isProcessing>>
        ELSE /\ isProcessing' = TRUE
             /\ stack' = [stack EXCEPT ![t] = Append(@, PeFrame(e))]
             /\ subsAtStart' = Append(subsAtStart, Listeners(ty))
             /\ running' = t
             /\ UNCHANGED <<pendingEvents, queued, returned>>
     /\ UNCHANGED <<handlers, handlerKeys, globalHandlers, maxHistorySize, subOf>>
     /\ UNCHANGED <<done, failed, dirty, resized, lastUnsub>>
     /\ UNCHANGED <<svcAll, extAll>>

Publish(t, ty) ==
  /\ running = 0
  /\ stack[t] = <<>>
  /\ DoPublish(t, ty, 0)

HandlerPublish(t, ty) ==
  /\ CanRun(t)
  /\ TopIs(t, "h")
  /\ DoPublish(t, ty, Top(t).ev)

\* the handler awaits something outside the bus
HandlerAwait(t) ==
  /\ running = t
  /\ TopIs(t, "h")
  /\ running' = 0
  /\ UNCHANGED <<handlers, handlerKeys, globalHandlers, eventHistory, maxHistorySize,
                 isProcessing, pendingEvents, evType, subOf, stack>>
  /\ UNCHANGED obsVars
  /\ UNCHANGED <<svcAll, extAll>>

HandlerReturn(t) ==
  /\ CanRun(t)
  /\ TopIs(t, "h")
  /\ stack' = [stack EXCEPT ![t] = Pop(t)]
  /\ running' = 0
  /\ UNCHANGED <<handlers, handlerKeys, globalHandlers, eventHistory, maxHistorySize,
                 isProcessing, pendingEvents, evType, subOf>>
  /\ UNCHANGED obsVars
  /\ UNCHANGED <<svcAll, extAll>>

HandlerThrow(t) ==
  /\ CanRun(t)
  /\ TopIs(t, "h")
  /\ Cardinality(failed) < MaxFail
  /\ LET f == Top(t)
         caller == stack[t][Len(stack[t]) - 1]
     IN /\ stack' = [stack EXCEPT ![t] =
                       Append(SubSeq(@, 1, Len(@) - 2), AfterHandlerError(caller))]
        /\ failed' = failed \cup {<<f.ev, f.h>>}
  /\ running' = 0
  /\ UNCHANGED <<handlers, handlerKeys, globalHandlers, eventHistory, maxHistorySize,
                 isProcessing, pendingEvents, evType, subOf>>
  /\ UNCHANGED <<invoked, done, parent, queued, returned, subsAtStart, dirty,
                 sinceClear, resized, lastUnsub>>
  /\ UNCHANGED <<svcAll, extAll>>

\* await subscription.handler(event): the handler starts synchronously
Invoke(t, f, sub) ==
  /\ stack' = [stack EXCEPT ![t] = Append(ReplaceTop(t, f), HFrame(f.ev, sub))]
  /\ invoked' = [invoked EXCEPT ![f.ev] = Append(@, sub.h)]
  /\ running' = t
  /\ UNCHANGED <<handlers, handlerKeys, globalHandlers, eventHistory, maxHistorySize,
                 isProcessing, pendingEvents, evType, subOf>>
  /\ UNCHANGED <<done, parent, queued, returned, failed, subsAtStart,
                 dirty, sinceClear, resized, lastUnsub>>
  /\ UNCHANGED <<svcAll, extAll>>

\* for (const subscription of this.globalHandlers)
PeInvokeGlobal(t) ==
  /\ CanRun(t)
  /\ TopIs(t, "pe")
  /\ Top(t).ph = "global"
  /\ LET j == NextActive(globalHandlers, Top(t).i)
     IN /\ j # 0
        /\ Invoke(t, [Top(t) EXCEPT !.i = j], globalHandlers[j])

GlobalExhausted(f) == f.ph = "global" /\ NextActive(globalHandlers, f.i) = 0

TypedIndex(f) == IF f.ph = "typed" THEN f.i ELSE 0

\* const handlers = this.handlers.get(event.type) || []; for (... of handlers)
PeInvokeTyped(t) ==
  /\ CanRun(t)
  /\ TopIs(t, "pe")
  /\ Top(t).ph = "typed" \/ GlobalExhausted(Top(t))
  /\ LET arr == handlers[evType[Top(t).ev]]
         j == NextActive(arr, TypedIndex(Top(t)))
     IN /\ j # 0
        /\ Invoke(t, [Top(t) EXCEPT !.ph = "typed", !.i = j], arr[j])

LoopsExhausted(f) ==
  /\ f.ph = "typed" \/ GlobalExhausted(f)
  /\ NextActive(handlers[evType[f.ev]], TypedIndex(f)) = 0

\* finally { this.isProcessing = false } with nothing pending: processEvent returns
PeFinallyReturn(t) ==
  /\ CanRun(t)
  /\ TopIs(t, "pe")
  /\ LoopsExhausted(Top(t))
  /\ pendingEvents = <<>>
  /\ isProcessing' = FALSE
  /\ stack' = [stack EXCEPT ![t] = Pop(t)]
  /\ done' = done \cup {Top(t).ev}
  /\ returned' = IF Len(stack[t]) = 1 THEN returned \cup {Top(t).ev} ELSE returned
  /\ running' = 0
  /\ UNCHANGED <<handlers, handlerKeys, globalHandlers, eventHistory, maxHistorySize,
                 pendingEvents, evType, subOf>>
  /\ UNCHANGED <<invoked, parent, queued, failed, subsAtStart, dirty,
                 sinceClear, resized, lastUnsub>>
  /\ UNCHANGED <<svcAll, extAll>>

\* what a finally block that discards the pending events would do
DropPending(t) ==
  /\ CanRun(t)
  /\ TopIs(t, "pe")
  /\ LoopsExhausted(Top(t))
  /\ pendingEvents # <<>>
  /\ pendingEvents' = <<>>
  /\ isProcessing' = FALSE
  /\ stack' = [stack EXCEPT ![t] = Pop(t)]
  /\ done' = done \cup {Top(t).ev}
  /\ returned' = IF Len(stack[t]) = 1 THEN returned \cup {Top(t).ev} ELSE returned
  /\ running' = 0
  /\ UNCHANGED <<handlers, handlerKeys, globalHandlers, eventHistory, maxHistorySize,
                 evType, subOf>>
  /\ UNCHANGED <<invoked, parent, queued, failed, subsAtStart, dirty,
                 sinceClear, resized, lastUnsub>>
  /\ UNCHANGED <<svcAll, extAll>>

\* finally { this.isProcessing = false; const pending = [...this.pendingEvents];
\*           this.pendingEvents = []; await this.processEvent(pending[0]) ... }
PeFinallyDrain(t) ==
  /\ CanRun(t)
  /\ TopIs(t, "pe")
  /\ LoopsExhausted(Top(t))
  /\ pendingEvents # <<>>
  /\ LET f == [Top(t) EXCEPT !.ph = "drain", !.i = 1, !.q = pendingEvents]
         e == pendingEvents[1]
     IN /\ stack' = [stack EXCEPT ![t] = Append(ReplaceTop(t, f), PeFrame(e))]
        /\ subsAtStart' = [subsAtStart EXCEPT ![e] = Listeners(evType[e])]
  /\ pendingEvents' = <<>>
  /\ isProcessing' = TRUE
  /\ done' = done \cup {Top(t).ev}
  /\ running' = t
  /\ UNCHANGED <<handlers, handlerKeys, globalHandlers, eventHistory, maxHistorySize,
                 evType, subOf>>
  /\ UNCHANGED <<invoked, parent, queued, returned, failed, dirty,
                 sinceClear, resized, lastUnsub>>
  /\ UNCHANGED <<svcAll, extAll>>

\* for (const pendingEvent of pending) await this.processEvent(pendingEvent)
DrainNext(t) ==
  /\ CanRun(t)
  /\ TopIs(t, "pe")
  /\ Top(t).ph = "drain"
  /\ Top(t).i < Len(Top(t).q)
  /\ LET e == Top(t).q[Top(t).i + 1]
     IN /\ stack' = [stack EXCEPT ![t] =
                       Append(ReplaceTop(t, [Top(t) EXCEPT !.i = @ + 1]), PeFrame(e))]
        /\ subsAtStart' = [subsAtStart EXCEPT ![e] = Listeners(evType[e])]
  /\ isProcessing' = TRUE
  /\ running' = t
  /\ UNCHANGED <<handlers, handlerKeys, globalHandlers, eventHistory, maxHistorySize,
                 pendingEvents, evType, subOf>>
  /\ UNCHANGED <<invoked, done, parent, queued, returned, failed, dirty,
                 sinceClear, resized, lastUnsub>>
  /\ UNCHANGED <<svcAll, extAll>>

DrainDone(t) ==
  /\ CanRun(t)
  /\ TopIs(t, "pe")
  /\ Top(t).ph = "drain"
  /\ Top(t).i = Len(Top(t).q)
  /\ stack' = [stack EXCEPT ![t] = Pop(t)]
  /\ returned' = IF Len(stack[t]) = 1 THEN returned \cup {Top(t).ev} ELSE returned
  /\ running' = 0
  /\ UNCHANGED <<handlers, handlerKeys, globalHandlers, eventHistory, maxHistorySize,
                 isProcessing, pendingEvents, evType, subOf>>
  /\ UNCHANGED <<invoked, done, parent, queued, failed, subsAtStart, dirty,
                 sinceClear, resized, lastUnsub>>
  /\ UNCHANGED <<svcAll, extAll>>

SetMaxHistorySize(size) ==
  /\ running = 0
  /\ maxHistorySize' = size
  /\ eventHistory' = IF Len(eventHistory) > size
                     THEN JsSlice(eventHistory, 0 - size) ELSE eventHistory
  /\ resized' = TRUE
  /\ UNCHANGED <<handlers, handlerKeys, globalHandlers, isProcessing, pendingEvents,
                 evType, subOf, stack, running>>
  /\ UNCHANGED <<invoked, done, parent, queued, returned, failed, subsAtStart,
                 dirty, sinceClear, lastUnsub>>
  /\ UNCHANGED <<svcAll, extAll>>

ClearHistory ==
  /\ running = 0
  /\ eventHistory' = <<>>
  /\ sinceClear' = <<>>
  /\ resized' = FALSE
  /\ UNCHANGED <<handlers, handlerKeys, globalHandlers, maxHistorySize, isProcessing,
                 pendingEvents, evType, subOf, stack, running>>
  /\ UNCHANGED <<invoked, done, parent, queued, returned, failed, subsAtStart,
                 dirty, lastUnsub>>
  /\ UNCHANGED <<svcAll, extAll>>

\* ------------------------------------------------------------- ServiceContainer
\* if (serviceDef.instance): 0, "", null, false and undefined are not truthy
Truthy(v) == v.kind = "object"

\* what a factory does when called: "new" makes a fresh object, "falsy" returns a
\* falsy value, "throws" fails, "const" returns the value it closes over
FactoryKinds == {"new", "falsy", "throws"}
Factory(kind) == [kind |-> kind, v |-> Undefined]
ConstFactory(v) == [kind |-> "const", v |-> v]

ServiceDef(factory, singleton, dependencies) ==
  [factory |-> factory, singleton |-> singleton, dependencies |-> dependencies,
   instance |-> Undefined]

RFrame(id) == [id |-> id, di |-> 0, st |-> "deps", val |-> Undefined, err |-> FALSE]

RTop(t) == rstack[t][Len(rstack[t])]
RPop(t) == SubSeq(rstack[t], 1, Len(rstack[t]) - 1)

CanRunSvc(t) == running = t \/ (running = 0 /\ rstack[t] # <<>>)

busRest == <<handlers, handlerKeys, globalHandlers, maxHistorySize, isProcessing,
             pendingEvents, subOf, stack>>
obsRest == <<queued, failed, dirty, resized, lastUnsub>>
busQuiet == <<busRest, obsRest, eventHistory, evType, invoked, done, parent, returned,
              subsAtStart, sinceClear>>

\* this.eventBus.publish(...) from the container, not awaited.  The bus is not
\* delivering and nobody subscribes to the container's events, so processEvent
\* invokes no handler and has finished when publish returns.
ContainerPublish(ty) ==
  LET e == Len(evType) + 1
  IN /\ ~ShouldQueue
     /\ Listeners(ty) = {}
     /\ evType' = Append(evType, ty)
     /\ parent' = Append(parent, 0)
     /\ invoked' = Append(invoked, <<>>)
     /\ subsAtStart' = Append(subsAtStart, {})
     /\ eventHistory' = AddToHistory(eventHistory, e, maxHistorySize)
     /\ sinceClear' = Append(sinceClear, e)
     /\ done' = done \cup {e}
     /\ returned' = returned \cup {e}
     /\ UNCHANGED <<busRest, obsRest>>

NeverDuplicate(id) == FALSE

\* if (this.services.has(id)) throw new Error(`Service ${id} is already registered`)
IsDuplicate(id) == id \in DOMAIN services

WithService(id, def) ==
  [k \in DOMAIN services \cup {id} |-> IF k = id THEN def ELSE services[k]]

\* register(id, factory, { singleton, dependencies })
Register(id, factory, singleton, dependencies) ==
  /\ running = 0
  /\ IF IsDuplicate(id)
     THEN /\ svcResult' = [n |-> svcResult.n + 1, op |-> "register", id |-> id,
                           outcome |-> "DuplicateService", v |-> Undefined]
          /\ UNCHANGED <<services, serviceKeys, busQuiet>>
     ELSE /\ services' = WithService(id, ServiceDef(factory, singleton, dependencies))
          /\ serviceKeys' = Append(SelectSeq(serviceKeys, LAMBDA k : k # id), id)
          /\ ContainerPublish("service.registered")
          /\ svcResult' = [n |-> svcResult.n + 1, op |-> "register", id |-> id,
                           outcome |-> "ok", v |-> Undefined]
  /\ UNCHANGED <<resolving, rstack, thrown, running>>
  /\ UNCHANGED <<factoryCalls, firstInst, callsAtFirst, lastRet, extAll, validation>>

RegisterSingleton(id, factory, dependencies) ==
  /\ Register(id, factory, TRUE, dependencies)
  /\ UNCHANGED nextObj

RegisterTransient(id, factory, dependencies) ==
  /\ Register(id, factory, FALSE, dependencies)
  /\ UNCHANGED nextObj

\* registerInstance(id, instance): the instance is a new object or a falsy value
RegisterInstance(id, kind) ==
  /\ kind \in {"object", "falsy"}
  /\ LET v == IF kind = "object" THEN Object(nextObj + 1) ELSE Falsy
     IN Register(id, ConstFactory(v), TRUE, <<>>)
  /\ nextObj' = IF kind = "object" THEN nextObj + 1 ELSE nextObj

\* if (this.resolving.has(id)) throw new Error(`Circular dependency detected ...`)
IsResolving(id) == id \in resolving

\* if (serviceDef.singleton && serviceDef.instance) return serviceDef.instance
HasCachedInstance(def) == def.singleton /\ Truthy(def.instance)

\* isResolved(id)
IsResolved(id) ==
  id \in DOMAIN services /\ services[id].singleton /\ services[id].instance # Undefined

\* what the caller of a resolve call gets: the call is top level when the chain
\* below it is `below`
Deliver(t, below, outcome, v) ==
  IF below = <<>>
  THEN /\ svcResult' = [svcResult EXCEPT !.outcome = outcome, !.v = v]
       /\ thrown' = [thrown EXCEPT ![t] = "none"]
  ELSE /\ thrown' = [thrown EXCEPT ![t] = IF outcome = "ok" THEN "none" ELSE outcome]
       /\ UNCHANGED svcResult

NoteReturn(id, v) ==
  /\ lastRet' = [id |-> id, v |-> v]
  /\ firstInst' = IF callsAtFirst[id] = 0 THEN [firstInst EXCEPT ![id] = v] ELSE firstInst
  /\ callsAtFirst' = IF callsAtFirst[id] = 0
                     THEN [callsAtFirst EXCEPT ![id] = factoryCalls'[id]]
                     ELSE callsAtFirst

\* resolve(id) up to its first await, called by task t whose chain of calls in
\* progress is `below`
Call(t, id, below) ==
  IF id \notin DOMAIN services
  THEN /\ Deliver(t, below, "ServiceNotFound", Undefined)
       /\ rstack' = [rstack EXCEPT ![t] = below]
       /\ running' = 0
       /\ UNCHANGED <<resolving, lastRet, firstInst, callsAtFirst>>
  ELSE IF IsResolving(id)
  THEN /\ Deliver(t, below, "CircularDependency", Undefined)
       /\ rstack' = [rstack EXCEPT ![t] = below]
       /\ running' = 0
       /\ UNCHANGED <<resolving, lastRet, firstInst, callsAtFirst>>
  ELSE IF HasCachedInstance(services[id])
  THEN /\ Deliver(t, below, "ok", services[id].instance)
       /\ NoteReturn(id, services[id].instance)
       /\ rstack' = [rstack EXCEPT ![t] = below]
       /\ running' = 0
       /\ UNCHANGED resolving
  ELSE /\ resolving' = resolving \cup {id}
       /\ rstack' = [rstack EXCEPT ![t] = Append(below, RFrame(id))]
       /\ running' = t
       /\ UNCHANGED <<thrown, svcResult, lastRet, firstInst, callsAtFirst>>

\* a top-level resolve(id)
Resolve(t, id) ==
  /\ running = 0
  /\ rstack[t] = <<>>
  /\ stack[t] = <<>>
  /\ LET started == [n |-> svcResult.n + 1, op |-> "resolve", id |-> id,
                     outcome |-> "pending", v |-> Undefined]
     IN IF id \in DOMAIN services /\ ~IsResolving(id) /\ ~HasCachedInstance(services[id])
        THEN /\ svcResult' = started
             /\ resolving' = resolving \cup {id}
             /\ rstack' = [rstack EXCEPT ![t] = <<RFrame(id)>>]
             /\ running' = t
             /\ UNCHANGED <<thrown, lastRet, firstInst, callsAtFirst>>
        ELSE /\ svcResult' =
                  [started EXCEPT
                     !.outcome = IF id \notin DOMAIN services THEN "ServiceNotFound"
                                 ELSE IF IsResolving(id) THEN "CircularDependency"
                                 ELSE "ok",
                     !.v = IF id \in DOMAIN services /\ ~IsResolving(id)
                           THEN services[id].instance ELSE Undefined]
             /\ IF id \in DOMAIN services /\ ~IsResolving(id)
                THEN NoteReturn(id, services[id].instance)
                ELSE UNCHANGED <<lastRet, firstInst, callsAtFirst>>
             /\ UNCHANGED <<resolving, rstack, thrown, running>>
  /\ UNCHANGED <<services, serviceKeys, nextObj, factoryCalls, busQuiet, extAll, validation>>

\* resolveDependencies: resolved.push(await this.resolve(dep)) for the next dep
ResolveDependency(t) ==
  /\ CanRunSvc(t)
  /\ rstack[t] # <<>>
  /\ thrown[t] = "none"
  /\ RTop(t).st = "deps"
  /\ RTop(t).di < Len(services[RTop(t).id].dependencies)
  /\ LET f == RTop(t)
         dep == services[f.id].dependencies[f.di + 1]
     IN Call(t, dep, Append(RPop(t), [f EXCEPT !.di = @ + 1]))
  /\ UNCHANGED <<services, serviceKeys, nextObj, factoryCalls, busQuiet, extAll, validation>>

\* what leaving a failed resolve without the finally block would do
UnwindKeepsResolving(t, outcome) ==
  /\ rstack' = [rstack EXCEPT ![t] = RPop(t)]
  /\ Deliver(t, RPop(t), outcome, Undefined)
  /\ running' = 0
  /\ UNCHANGED <<services, serviceKeys, resolving, nextObj, busQuiet, extAll, validation>>
  /\ UNCHANGED <<factoryCalls, firstInst, callsAtFirst, lastRet>>

\* finally { this.resolving.delete(id) } on the way out of a failed resolve
Unwind(t, outcome) ==
  /\ resolving' = resolving \ {RTop(t).id}
  /\ rstack' = [rstack EXCEPT ![t] = RPop(t)]
  /\ Deliver(t, RPop(t), outcome, Undefined)
  /\ running' = 0
  /\ UNCHANGED <<services, serviceKeys, nextObj, busQuiet, extAll, validation>>
  /\ UNCHANGED <<factoryCalls, firstInst, callsAtFirst, lastRet>>

\* what swallowing a dependency's failure would do
IgnoreDependencyFailure(t) ==
  /\ CanRunSvc(t)
  /\ rstack[t] # <<>>
  /\ thrown[t] # "none"
  /\ thrown' = [thrown EXCEPT ![t] = "none"]
  /\ running' = 0
  /\ UNCHANGED <<services, serviceKeys, resolving, rstack, nextObj, busQuiet, extAll, validation>>
  /\ UNCHANGED <<factoryCalls, firstInst, callsAtFirst, lastRet, svcResult>>

\* a dependency failed to resolve: the error leaves this resolve call too
DependencyFailed(t) ==
  /\ CanRunSvc(t)
  /\ rstack[t] # <<>>
  /\ thrown[t] # "none"
  /\ Unwind(t, thrown[t])

\* const instance = await serviceDef.factory(): the factory is called
InvokeFactory(t) ==
  /\ CanRunSvc(t)
  /\ rstack[t] # <<>>
  /\ thrown[t] = "none"
  /\ RTop(t).st = "deps"
  /\ RTop(t).di = Len(services[RTop(t).id].dependencies)
  /\ LET f == RTop(t)
         fac == services[f.id].factory
         val == CASE fac.kind = "new" -> Object(nextObj + 1)
                  [] fac.kind = "falsy" -> Falsy
                  [] fac.kind = "const" -> fac.v
                  [] OTHER -> Undefined
     IN /\ rstack' = [rstack EXCEPT ![t] =
                        Append(RPop(t), [f EXCEPT !.st = "factory", !.val = val,
                                                  !.err = (fac.kind = "throws")])]
        /\ nextObj' = IF fac.kind = "new" THEN nextObj + 1 ELSE nextObj
        /\ factoryCalls' = [factoryCalls EXCEPT ![f.id] = @ + 1]
  /\ running' = 0
  /\ UNCHANGED <<services, serviceKeys, resolving, thrown, busQuiet, extAll, validation>>
  /\ UNCHANGED <<firstInst, callsAtFirst, lastRet, svcResult>>

\* the factory's promise is fulfilled: cache, publish service.resolved, return
FactoryReturned(t) ==
  /\ CanRunSvc(t)
  /\ rstack[t] # <<>>
  /\ RTop(t).st = "factory"
  /\ ~RTop(t).err
  /\ LET f == RTop(t)
     IN /\ services' = IF services[f.id].singleton
                       THEN [services EXCEPT ![f.id].instance = f.val]
                       ELSE services
        /\ ContainerPublish("service.resolved")
        /\ resolving' = resolving \ {f.id}
        /\ rstack' = [rstack EXCEPT ![t] = RPop(t)]
        /\ Deliver(t, RPop(t), "ok", f.val)
        /\ UNCHANGED factoryCalls
        /\ NoteReturn(f.id, f.val)
  /\ running' = 0
  /\ UNCHANGED <<serviceKeys, nextObj, extAll, validation>>

\* what caching a placeholder for a failed factory would do
FailureCached(t) ==
  /\ CanRunSvc(t)
  /\ rstack[t] # <<>>
  /\ RTop(t).st = "factory"
  /\ RTop(t).err
  /\ services' = [services EXCEPT ![RTop(t).id].instance = Falsy]
  /\ resolving' = resolving \ {RTop(t).id}
  /\ rstack' = [rstack EXCEPT ![t] = RPop(t)]
  /\ Deliver(t, RPop(t), "FactoryError", Undefined)
  /\ running' = 0
  /\ UNCHANGED <<serviceKeys, nextObj, busQuiet, extAll, validation>>
  /\ UNCHANGED <<factoryCalls, firstInst, callsAtFirst, lastRet>>

\* the factory failed
FactoryThrew(t) ==
  /\ CanRunSvc(t)
  /\ rstack[t] # <<>>
  /\ RTop(t).st = "factory"
  /\ RTop(t).err
  /\ Unwind(t, "FactoryError")

\* getDependents(serviceId): the registered ids, in registration order, whose
\* dependencies include serviceId
GetDependents(serviceId) ==
  SelectSeq(serviceKeys,
            LAMBDA k : serviceId \in Range(services[k].dependencies))

\* unregister(id)
Unregister(id) ==
  /\ running = 0
  /\ IF id \notin DOMAIN services
     THEN /\ svcResult' = [n |-> svcResult.n + 1, op |-> "unregister", id |-> id,
                           outcome |-> "false", v |-> Undefined]
          /\ UNCHANGED <<services, serviceKeys, busQuiet>>
          /\ UNCHANGED <<factoryCalls, firstInst, callsAtFirst>>
     ELSE IF Len(GetDependents(id)) > 0
     THEN /\ svcResult' = [n |-> svcResult.n + 1, op |-> "unregister", id |-> id,
                           outcome |-> "HasDependents", v |-> Undefined]
          /\ UNCHANGED <<services, serviceKeys, busQuiet>>
          /\ UNCHANGED <<factoryCalls, firstInst, callsAtFirst>>
     ELSE /\ services' = [k \in DOMAIN services \ {id} |-> services[k]]
          /\ serviceKeys' = SelectSeq(serviceKeys, LAMBDA k : k # id)
          /\ ContainerPublish("service.unregistered")
          /\ svcResult' = [n |-> svcResult.n + 1, op |-> "unregister", id |-> id,
                           outcome |-> "true", v |-> Undefined]
          \* the observations are kept per definition
          /\ factoryCalls' = [factoryCalls EXCEPT ![id] = 0]
          /\ firstInst' = [firstInst EXCEPT ![id] = Undefined]
          /\ callsAtFirst' = [callsAtFirst EXCEPT ![id] = 0]
  /\ UNCHANGED <<resolving, rstack, thrown, running, nextObj, lastRet, extAll, validation>>

\* what slicing the path from its root would use
FromRoot(path, node) == 0

\* path.indexOf(node), 0-based, -1 when absent
IndexOf(path, node) ==
  IF \E i \in 1..Len(path) : path[i] = node
  THEN (CHOOSE i \in 1..Len(path) :
          path[i] = node /\ \A j \in 1..(i - 1) : path[j] # node) - 1
  ELSE 0 - 1

NeverOnStack(node, st) == FALSE

\* if (recursionStack.has(node))
OnRecursionStack(node, st) == node \in st.recursionStack

RECURSIVE Dfs(_, _, _)
RECURSIVE DfsDeps(_, _, _, _)
\* const dfs = (node, path) => { ... } of validateDependencies
Dfs(node, path, st) ==
  IF OnRecursionStack(node, st)
  THEN [st EXCEPT !.cycles = Append(@, JsSlice(path, IndexOf(path, node)))]
  ELSE IF node \in st.visited THEN st
  ELSE LET entered == [st EXCEPT !.visited = @ \cup {node},
                                 !.recursionStack = @ \cup {node}]
           explored == IF node \in DOMAIN services
                       THEN DfsDeps(services[node].dependencies, 1,
                                    Append(path, node), entered)
                       ELSE entered
       IN [explored EXCEPT !.recursionStack = @ \ {node}]

\* for (const dep of serviceDef.dependencies) dfs(dep, [...path, node])
DfsDeps(deps, i, path, st) ==
  IF i > Len(deps) THEN st
  ELSE DfsDeps(deps, i + 1, path, Dfs(deps[i], path, st))

RECURSIVE DfsAll(_, _)
\* for (const [id] of this.services) if (!visited.has(id)) dfs(id, [])
DfsAll(i, st) ==
  IF i > Len(serviceKeys) THEN st
  ELSE DfsAll(i + 1, IF serviceKeys[i] \in st.visited THEN st
                     ELSE Dfs(serviceKeys[i], <<>>, st))

ValidateDependencies ==
  LET st == DfsAll(1, [visited |-> {}, recursionStack |-> {}, cycles |-> <<>>])
  IN [valid |-> st.cycles = <<>>, cycles |-> st.cycles]

\* a call of validateDependencies(): synchronous, so it runs whenever no other
\* code does, a resolve call waiting at an await included
ValidateDependenciesCall ==
  /\ running = 0
  /\ validation' = [n |-> validation.n + 1,
                    valid |-> ValidateDependencies.valid,
                    cycles |-> ValidateDependencies.cycles]
  /\ UNCHANGED <<busVars, obsVars, svcVars, extAll>>
  /\ UNCHANGED <<factoryCalls, firstInst, callsAtFirst, lastRet, svcResult>>

\* ------------------------------------------------------------- PluginRegistry
NoError == [kind |-> "", dep |-> ""]

StartingType(op) == IF op = "register" THEN "plugin.registering" ELSE "plugin.loading"
DoneType(op) == IF op = "register" THEN "plugin.registered" ELSE "plugin.loaded"
ErrorType(op) == IF op = "register" THEN "plugin.register.error" ELSE "plugin.load.error"

OverwriteAll(id, info) == [k \in DOMAIN plugins \cup {id} |-> info]

\* this.plugins.set(pluginId, info): a key already present keeps its place
WithPlugin(id, info) ==
  [k \in DOMAIN plugins \cup {id} |-> IF k = id THEN info ELSE plugins[k]]
KeysWithPlugin(id) ==
  IF id \in DOMAIN plugins THEN pluginKeys ELSE Append(pluginKeys, id)

IsActive(id) == id \in DOMAIN plugins /\ plugins[id].status = "active"

AlwaysProceed(id, forceReload) == FALSE

\* if (this.plugins.has(pluginId) && !options.forceReload)
\*   if (existing.status === 'active') return existing
AlreadyActive(id, forceReload) == IsActive(id) /\ ~forceReload

PluginIdle(t) == pcall[t].op = "none" /\ stack[t] = <<>> /\ rstack[t] = <<>>
InPluginCall(t, ops, pc) ==
  /\ running \in {0, t}
  /\ pcall[t].op \in ops
  /\ pcall[t].pc = pc

PluginResult(op, id, outcome, info) ==
  [n |-> plugResult.n + 1, op |-> op, id |-> id, outcome |-> outcome, info |-> info,
   manifest |-> <<>>, forceReload |-> FALSE, before |-> plugins]

\* registerPlugin / loadPlugin up to the first await
BeginLoad(t, op, id, manifest, instance, forceReload) ==
  /\ running = 0
  /\ PluginIdle(t)
  /\ IF AlreadyActive(id, forceReload)
     THEN /\ plugResult' = [PluginResult(op, id, "existing", plugins[id])
                               EXCEPT !.manifest = manifest, !.forceReload = forceReload]
          /\ UNCHANGED <<pcall, busQuiet>>
     ELSE /\ plugResult' = [PluginResult(op, id, "pending", NoInfo)
                               EXCEPT !.manifest = manifest, !.forceReload = forceReload]
          /\ ContainerPublish(StartingType(op))
          /\ pcall' = [pcall EXCEPT ![t] =
                         [op |-> op, id |-> id, pc |-> "validate", manifest |-> manifest,
                          instance |-> instance, err |-> NoError, info |-> NoInfo]]
  /\ UNCHANGED <<plugins, pluginKeys, plugClock, initCalls, running, svcAll, lcAll, kernAll>>

\* registerPlugin(pluginInstance, { forceReload })
RegisterPlugin(t, id, dependencies, init, cleanup, forceReload) ==
  BeginLoad(t, "register", id, dependencies, PluginObject(init, cleanup), forceReload)

\* loadPlugin(manifest, { forceReload }): const instance = null
LoadPlugin(t, id, dependencies, forceReload) ==
  BeginLoad(t, "load", id, dependencies, Null, forceReload)

\* if (!plugin || plugin.status !== 'active')
Unmet(dep) == ~IsActive(dep)

NoUnmet(dependencies) == ""

\* validateDependencies: the first dependency of the list that is unmet, "" if none
FirstUnmet(dependencies) ==
  IF \E i \in 1..Len(dependencies) : Unmet(dependencies[i])
  THEN dependencies[CHOOSE i \in 1..Len(dependencies) :
                      /\ Unmet(dependencies[i])
                      /\ \A j \in 1..(i - 1) : ~Unmet(dependencies[j])]
  ELSE ""

\* await this.validateDependencies(manifest.dependencies); on failure the catch
\* block publishes the error event
ValidatePluginDependencies(t) ==
  /\ InPluginCall(t, {"register", "load"}, "validate")
  /\ LET c == pcall[t]
         dep == FirstUnmet(c.manifest)
     IN IF dep # ""
        THEN /\ ContainerPublish(ErrorType(c.op))
             /\ pcall' = [pcall EXCEPT ![t].pc = "failed",
                                       ![t].err = [kind |-> "MissingDependency", dep |-> dep]]
        ELSE /\ pcall' = [pcall EXCEPT ![t].pc = "store"]
             /\ UNCHANGED busQuiet
  /\ running' = 0
  /\ UNCHANGED <<plugins, pluginKeys, plugClock, initCalls, plugResult, svcAll, lcAll, kernAll>>

\* this.plugins.set(pluginId, pluginInfo) with status 'active', then init if the
\* instance has one, else the completion event
StorePlugin(t) ==
  /\ InPluginCall(t, {"register", "load"}, "store")
  /\ LET c == pcall[t]
         info == [dependencies |-> c.manifest, instance |-> c.instance,
                  status |-> "active", loadTime |-> plugClock + 1, errorCount |-> 0,
                  lastError |-> NoError]
     IN /\ plugins' = WithPlugin(c.id, info)
        /\ pluginKeys' = KeysWithPlugin(c.id)
        /\ plugClock' = plugClock + 1
        /\ IF c.instance.kind = "plugin" /\ c.instance.init # "none"
           THEN /\ initCalls' = [initCalls EXCEPT ![c.id] = @ + 1]
                /\ pcall' = [pcall EXCEPT ![t].pc = "init", ![t].info = info]
                /\ UNCHANGED busQuiet
           ELSE /\ ContainerPublish(DoneType(c.op))
                /\ pcall' = [pcall EXCEPT ![t].pc = "done", ![t].info = info]
                /\ UNCHANGED initCalls
  /\ running' = 0
  /\ UNCHANGED <<plugResult, svcAll, lcAll, kernAll>>

\* await pluginInstance.init(context, config) is fulfilled
InitReturned(t) ==
  /\ InPluginCall(t, {"register"}, "init")
  /\ pcall[t].instance.init = "ok"
  /\ ContainerPublish(DoneType(pcall[t].op))
  /\ pcall' = [pcall EXCEPT ![t].pc = "done"]
  /\ running' = 0
  /\ UNCHANGED <<plugins, pluginKeys, plugClock, initCalls, plugResult, svcAll, lcAll, kernAll>>

\* init fails: the catch block publishes the error event
InitThrew(t) ==
  /\ InPluginCall(t, {"register"}, "init")
  /\ pcall[t].instance.init = "throws"
  /\ ContainerPublish(ErrorType(pcall[t].op))
  /\ pcall' = [pcall EXCEPT ![t].pc = "failed",
                            ![t].err = [kind |-> "PluginInitFailure", dep |-> ""]]
  /\ running' = 0
  /\ UNCHANGED <<plugins, pluginKeys, plugClock, initCalls, plugResult, svcAll, lcAll, kernAll>>

\* errorCount: 1 of the errorInfo the catch block stores
ErrorCountOnFailure(id) == 1

\* catch: this.plugins.set(pluginId, errorInfo); throw error
RecordLoadError(t) ==
  /\ InPluginCall(t, {"register", "load"}, "failed")
  /\ LET c == pcall[t]
         errorInfo == [dependencies |-> c.manifest, instance |-> Null,
                       status |-> "error", loadTime |-> plugClock + 1,
                       errorCount |-> ErrorCountOnFailure(c.id), lastError |-> c.err]
     IN /\ plugins' = WithPlugin(c.id, errorInfo)
        /\ pluginKeys' = KeysWithPlugin(c.id)
        /\ plugClock' = plugClock + 1
        /\ plugResult' = [plugResult EXCEPT !.outcome = c.err.kind, !.info = errorInfo]
  /\ pcall' = [pcall EXCEPT ![t] = NoPluginCall]
  /\ running' = 0
  /\ UNCHANGED <<initCalls, svcAll, lcAll, kernAll, busQuiet>>

\* return pluginInfo
LoadReturned(t) ==
  /\ InPluginCall(t, {"register", "load"}, "done")
  /\ plugResult' = [plugResult EXCEPT !.outcome = "ok", !.info = pcall[t].info]
  /\ pcall' = [pcall EXCEPT ![t] = NoPluginCall]
  /\ running' = 0
  /\ UNCHANGED <<plugins, pluginKeys, plugClock, initCalls, svcAll, lcAll, kernAll, busQuiet>>

\* the PluginInfo object a call fetched is still the one stored under its id
SameObject(id, info) == id \in DOMAIN plugins /\ plugins[id].loadTime = info.loadTime

\* the state of the PluginInfo object a call holds
Held(c) == IF SameObject(c.id, c.info) THEN plugins[c.id] ELSE c.info

\* unloadPlugin(pluginId) up to the first await
UnloadPlugin(t, id) ==
  /\ running = 0
  /\ PluginIdle(t)
  /\ IF id \notin DOMAIN plugins
     THEN /\ plugResult' = PluginResult("unload", id, "false", NoInfo)
          /\ UNCHANGED <<pcall, busQuiet>>
     ELSE /\ plugResult' = PluginResult("unload", id, "pending", NoInfo)
          /\ ContainerPublish("plugin.unloading")
          /\ pcall' = [pcall EXCEPT ![t] =
                         [op |-> "unload", id |-> id, pc |-> "cleanup", manifest |-> <<>>,
                          instance |-> Null, err |-> NoError, info |-> plugins[id]]]
  /\ UNCHANGED <<plugins, pluginKeys, plugClock, initCalls, running, svcAll, lcAll, kernAll>>

UnloadWithDependents(t) ==
  LET c == pcall[t]
  IN /\ plugins' = [k \in DOMAIN plugins |->
                      IF k = c.id \/ c.id \in Range(plugins[k].dependencies)
                      THEN [plugins[k] EXCEPT !.status = "unloaded", !.instance = Null]
                      ELSE plugins[k]]
     /\ ContainerPublish("plugin.unloaded")
     /\ pcall' = [pcall EXCEPT ![t].pc = "done"]

\* plugin.status = 'unloaded'; plugin.instance = null; publish plugin.unloaded
MarkUnloaded(t) ==
  LET c == pcall[t]
  IN /\ plugins' = IF SameObject(c.id, c.info)
                   THEN [plugins EXCEPT ![c.id].status = "unloaded",
                                        ![c.id].instance = Null]
                   ELSE plugins
     /\ ContainerPublish("plugin.unloaded")
     /\ pcall' = [pcall EXCEPT ![t].pc = "done"]

\* if (plugin.instance && typeof plugin.instance.cleanup === 'function')
\*   await plugin.instance.cleanup()
CallCleanup(t) ==
  /\ InPluginCall(t, {"unload"}, "cleanup")
  /\ IF Held(pcall[t]).instance.kind = "plugin" /\ Held(pcall[t]).instance.cleanup # "none"
     THEN /\ pcall' = [pcall EXCEPT ![t].pc = "cleaning",
                                    ![t].instance = Held(pcall[t]).instance]
          /\ UNCHANGED <<plugins, busQuiet>>
     ELSE MarkUnloaded(t)
  /\ running' = 0
  /\ UNCHANGED <<pluginKeys, plugClock, initCalls, plugResult, svcAll, lcAll, kernAll>>

\* cleanup() is fulfilled
CleanupReturned(t) ==
  /\ InPluginCall(t, {"unload"}, "cleaning")
  /\ pcall[t].instance.cleanup = "ok"
  /\ MarkUnloaded(t)
  /\ running' = 0
  /\ UNCHANGED <<pluginKeys, plugClock, initCalls, plugResult, svcAll, lcAll, kernAll>>

\* what marking the plugin unloaded before cleanup settles would do on a failure
CleanupFailureUnloads(t) ==
  /\ InPluginCall(t, {"unload"}, "cleaning")
  /\ pcall[t].instance.cleanup = "throws"
  /\ plugins' = [plugins EXCEPT ![pcall[t].id].status = "unloaded",
                                ![pcall[t].id].instance = Null]
  /\ ContainerPublish("plugin.unload.error")
  /\ pcall' = [pcall EXCEPT ![t].pc = "failed",
                            ![t].err = [kind |-> "CleanupFailure", dep |-> ""]]
  /\ running' = 0
  /\ UNCHANGED <<pluginKeys, plugClock, initCalls, plugResult, svcAll, lcAll, kernAll>>

\* cleanup() fails: the catch block publishes plugin.unload.error
CleanupThrew(t) ==
  /\ InPluginCall(t, {"unload"}, "cleaning")
  /\ pcall[t].instance.cleanup = "throws"
  /\ ContainerPublish("plugin.unload.error")
  /\ pcall' = [pcall EXCEPT ![t].pc = "failed",
                            ![t].err = [kind |-> "CleanupFailure", dep |-> ""]]
  /\ running' = 0
  /\ UNCHANGED <<plugins, pluginKeys, plugClock, initCalls, plugResult, svcAll, lcAll, kernAll>>

\* catch: throw error
UnloadFailed(t) ==
  /\ InPluginCall(t, {"unload"}, "failed")
  /\ plugResult' = [plugResult EXCEPT !.outcome = pcall[t].err.kind,
                                       !.info = pcall[t].info]
  /\ pcall' = [pcall EXCEPT ![t] = NoPluginCall]
  /\ running' = 0
  /\ UNCHANGED <<plugins, pluginKeys, plugClock, initCalls, svcAll, lcAll, kernAll, busQuiet>>

\* setPluginStatus(pluginId, status) up to its await
SetPluginStatus(t, id, status) ==
  /\ running = 0
  /\ PluginIdle(t)
  /\ IF id \notin DOMAIN plugins
     THEN /\ plugResult' = PluginResult("setStatus", id, "false", NoInfo)
          /\ UNCHANGED <<plugins, pcall, busQuiet>>
     ELSE /\ plugResult' = PluginResult("setStatus", id, "pending", NoInfo)
          /\ plugins' = [plugins EXCEPT ![id].status = status]
          /\ ContainerPublish("plugin.status.changed")
          /\ pcall' = [pcall EXCEPT ![t] =
                         [op |-> "setStatus", id |-> id, pc |-> "done", manifest |-> <<>>,
                          instance |-> Null, err |-> NoError, info |-> plugins[id]]]
  /\ UNCHANGED <<pluginKeys, plugClock, initCalls, running, svcAll, lcAll, kernAll>>

\* return true
ReturnTrue(t) ==
  /\ InPluginCall(t, {"unload", "setStatus"}, "done")
  /\ plugResult' = [plugResult EXCEPT !.outcome = "true", !.info = pcall[t].info]
  /\ pcall' = [pcall EXCEPT ![t] = NoPluginCall]
  /\ running' = 0
  /\ UNCHANGED <<plugins, pluginKeys, plugClock, initCalls, svcAll, lcAll, kernAll, busQuiet>>

\* getAllPlugins()
GetAllPlugins == [i \in 1..Len(pluginKeys) |-> plugins[pluginKeys[i]]]

\* ------------------------------------------------------------- LifecycleManager
\* Array.prototype.reverse
Reverse(seq) == [i \in 1..Len(seq) |-> seq[Len(seq) + 1 - i]]

\* this.hooks.get(phase.name) || []
HooksOf(name) == IF name \in DOMAIN hooks THEN hooks[name] ELSE <<>>

\* Array.from(this.phases.values()).sort((a, b) => b.order - a.order): a stable
\* sort of the phases, given in insertion order
RECURSIVE StopOrder(_)
StopOrder(names) ==
  IF names = <<>> THEN <<>>
  ELSE LET rest == StopOrder(SubSeq(names, 1, Len(names) - 1))
           name == names[Len(names)]
           before == {i \in 0..Len(rest) :
                        \A j \in 1..i : phases[rest[j]].order >= phases[name].order}
           k == CHOOSE i \in before : \A j \in before : j <= i
       IN SubSeq(rest, 1, k) \o <<name>> \o SubSeq(rest, k + 1, Len(rest))

InsertionOrder(names) == names

\* Array.from(this.phases.values()).sort((a, b) => a.order - b.order)
RECURSIVE StartOrder(_)
StartOrder(names) ==
  IF names = <<>> THEN <<>>
  ELSE LET rest == StartOrder(SubSeq(names, 1, Len(names) - 1))
           name == names[Len(names)]
           before == {i \in 0..Len(rest) :
                        \A j \in 1..i : phases[rest[j]].order <= phases[name].order}
           k == CHOOSE i \in before : \A j \in before : j <= i
       IN SubSeq(rest, 1, k) \o <<name>> \o SubSeq(rest, k + 1, Len(rest))

LifecycleIdle(t) == lcall[t].op = "none" /\ PluginIdle(t)
InLifecycleCall(t, pcs) ==
  /\ running \in {0, t}
  /\ lcall[t].op # "none"
  /\ lcall[t].pc \in pcs

CurrentPhase(c) == c.order[c.pi]

Traced(op, k, phase, hook) ==
  [lcTrace EXCEPT ![op] = Append(@, [k |-> k, phase |-> phase, hook |-> hook])]

\* registerPhase(phase)
RegisterPhase(name, order) ==
  /\ running = 0
  /\ phases' = [k \in DOMAIN phases \cup {name} |->
                  IF k = name THEN [order |-> order] ELSE phases[k]]
  /\ phaseKeys' = IF name \in DOMAIN phases THEN phaseKeys ELSE Append(phaseKeys, name)
  /\ ContainerPublish("lifecycle.phase.registered")
  /\ UNCHANGED <<hooks, phaseStatus, lcRunning, kernelRunning, lcall, nextHook, lcObsVars>>
  /\ UNCHANGED <<running, svcAll, plugAll, kernAll>>

\* registerHook({ phase, priority, enabled, ... })
RegisterHook(phase, priority, enabled) ==
  /\ running = 0
  /\ nextHook' = nextHook + 1
  /\ hooks' = [k \in DOMAIN hooks \cup {phase} |->
                 IF k = phase
                 THEN SortByPriority(Append(HooksOf(phase),
                                            [id |-> nextHook + 1, priority |-> priority,
                                             enabled |-> enabled]))
                 ELSE hooks[k]]
  /\ ContainerPublish("lifecycle.hook.registered")
  /\ UNCHANGED <<phases, phaseKeys, phaseStatus, lcRunning, kernelRunning, lcall, lcObsVars>>
  /\ UNCHANGED <<running, svcAll, plugAll, kernAll>>

LifecycleCall(op, kernel, pc) ==
  [op |-> op, kernel |-> kernel, pc |-> pc, order |-> <<>>, pi |-> 0,
   enabledHooks |-> <<>>, hi |-> 0, err |-> ""]

\* the outcome of a call of start() or stop() that has settled
Settled(op, kernel, outcome) ==
  [n |-> lcResult.n + 1, op |-> op, kernel |-> kernel, outcome |-> outcome]

NeverRunning == FALSE

\* if (this.isRunning) of LifecycleManager.start
LifecycleAlreadyRunning == lcRunning

\* LifecycleManager.start() called directly, up to its first await
LifecycleStart(t) ==
  /\ running = 0
  /\ LifecycleIdle(t)
  /\ IF LifecycleAlreadyRunning
     THEN /\ lcResult' = Settled("start", FALSE, "AlreadyRunning")
          /\ UNCHANGED <<lcRunning, lcall, lcTrace, busQuiet>>
     ELSE /\ UNCHANGED lcResult
          /\ lcRunning' = TRUE
          /\ ContainerPublish("lifecycle.starting")
          /\ lcall' = [lcall EXCEPT ![t] = LifecycleCall("start", FALSE, "starting")]
          /\ lcTrace' = [lcTrace EXCEPT !["start"] = <<>>]
  /\ UNCHANGED <<phases, phaseKeys, hooks, phaseStatus, kernelRunning, nextHook, hookFailures>>
  /\ UNCHANGED <<running, svcAll, plugAll, kernAll>>

\* LifecycleManager.stop() called directly, up to its first await
LifecycleStop(t) ==
  /\ running = 0
  /\ LifecycleIdle(t)
  /\ IF ~lcRunning
     THEN /\ lcResult' = Settled("stop", FALSE, "ok")
          /\ UNCHANGED <<lcall, lcTrace, busQuiet>>
     ELSE /\ UNCHANGED lcResult
          /\ ContainerPublish("lifecycle.stopping")
          /\ lcall' = [lcall EXCEPT ![t] = LifecycleCall("stop", FALSE, "starting")]
          /\ lcTrace' = [lcTrace EXCEPT !["stop"] = <<>>]
  /\ UNCHANGED <<phases, phaseKeys, hooks, phaseStatus, lcRunning, kernelRunning, nextHook,
                 hookFailures>>
  /\ UNCHANGED <<running, svcAll, plugAll, kernAll>>

\* executePhase(phase, reverse) up to its first await: the status entry is set
\* to 'running' and 'lifecycle.phase.starting' is published
ExecutePhase(t, c, order, pi) ==
  /\ phaseStatus' = [k \in DOMAIN phaseStatus \cup {order[pi]} |->
                       IF k = order[pi] THEN "running" ELSE phaseStatus[k]]
  /\ lcTrace' = Traced(c.op, "phase", order[pi], 0)
  /\ ContainerPublish("lifecycle.phase.starting")
  /\ lcall' = [lcall EXCEPT ![t] = [c EXCEPT !.order = order, !.pi = pi, !.pc = "phase",
                                            !.enabledHooks = <<>>, !.hi = 0]]

\* the phases are sorted and the first one is entered
SortPhases(t) ==
  /\ InLifecycleCall(t, {"starting"})
  /\ LET c == lcall[t]
         order == IF c.op = "start" THEN StartOrder(phaseKeys) ELSE StopOrder(phaseKeys)
     IN ExecutePhase(t, c, order, 1)
  /\ UNCHANGED <<phases, phaseKeys, hooks, lcRunning, kernelRunning, nextHook, hookFailures,
                 lcResult>>
  /\ UNCHANGED <<running, svcAll, plugAll, kernAll>>

\* the for loop over enabledHooks: the next handler is called, or the phase is
\* marked 'completed' and 'lifecycle.phase.completed' is published
RunHooks(t, c, list, hi) ==
  IF hi < Len(list)
  THEN /\ lcTrace' = Traced(c.op, "hook", CurrentPhase(c), list[hi + 1].id)
       /\ lcall' = [lcall EXCEPT ![t] = [c EXCEPT !.enabledHooks = list, !.hi = hi + 1,
                                                  !.pc = "hook"]]
       /\ UNCHANGED <<phaseStatus, busQuiet>>
  ELSE /\ phaseStatus' = [phaseStatus EXCEPT ![CurrentPhase(c)] = "completed"]
       /\ lcTrace' = Traced(c.op, "phaseCompleted", CurrentPhase(c), 0)
       /\ ContainerPublish("lifecycle.phase.completed")
       /\ lcall' = [lcall EXCEPT ![t] = [c EXCEPT !.enabledHooks = list, !.hi = hi,
                                                  !.pc = "phaseDone"]]

\* hooks.filter(h => h.enabled), reversed when reverse is set
EnabledHooks(name, reverse) ==
  LET enabled == SelectSeq(HooksOf(name), LAMBDA h : h.enabled)
  IN IF reverse THEN Reverse(enabled) ELSE enabled

\* after 'lifecycle.phase.starting': the enabled hooks are selected and the
\* first one is called
SelectHooks(t) ==
  /\ InLifecycleCall(t, {"phase"})
  /\ LET c == lcall[t]
     IN RunHooks(t, c, EnabledHooks(CurrentPhase(c), c.op = "stop"), 0)
  /\ UNCHANGED <<phases, phaseKeys, hooks, lcRunning, kernelRunning, nextHook, hookFailures,
                 lcResult>>
  /\ UNCHANGED <<running, svcAll, plugAll, kernAll>>

\* await hook.handler() returned
HookReturned(t) ==
  /\ InLifecycleCall(t, {"hook"})
  /\ LET c == lcall[t]
     IN /\ lcTrace' = Traced(c.op, "hookCompleted", CurrentPhase(c), c.enabledHooks[c.hi].id)
        /\ ContainerPublish("lifecycle.hook.completed")
        /\ lcall' = [lcall EXCEPT ![t].pc = "hookDone"]
  /\ UNCHANGED <<phases, phaseKeys, hooks, phaseStatus, lcRunning, kernelRunning, nextHook,
                 hookFailures, lcResult>>
  /\ UNCHANGED <<running, svcAll, plugAll, kernAll>>

\* await hook.handler() threw
HookThrew(t) ==
  /\ InLifecycleCall(t, {"hook"})
  /\ hookFailures < MaxHookFail
  /\ hookFailures' = hookFailures + 1
  /\ LET c == lcall[t]
     IN /\ lcTrace' = Traced(c.op, "hookError", CurrentPhase(c), c.enabledHooks[c.hi].id)
        /\ ContainerPublish("lifecycle.hook.error")
        /\ lcall' = [lcall EXCEPT ![t].pc = "hookFailed"]
  /\ UNCHANGED <<phases, phaseKeys, hooks, phaseStatus, lcRunning, kernelRunning, nextHook,
                 lcResult>>
  /\ UNCHANGED <<running, svcAll, plugAll, kernAll>>

NeverRethrows(name) == FALSE
AlwaysRethrows(name) == TRUE

\* if (phase.name === 'critical') throw error
Rethrows(name) == name = "critical"

\* the loop continues after a completed hook, or after a failed hook of a
\* phase that is not named 'critical'
AfterHook(t) ==
  /\ InLifecycleCall(t, {"hookDone", "hookFailed"})
  /\ LET c == lcall[t]
     IN /\ c.pc = "hookFailed" => ~Rethrows(CurrentPhase(c))
        /\ RunHooks(t, c, c.enabledHooks, c.hi)
  /\ UNCHANGED <<phases, phaseKeys, hooks, lcRunning, kernelRunning, nextHook, hookFailures,
                 lcResult>>
  /\ UNCHANGED <<running, svcAll, plugAll, kernAll>>

\* the outer catch of executePhase
PhaseFailed(t) ==
  /\ InLifecycleCall(t, {"hookFailed"})
  /\ LET c == lcall[t]
     IN /\ Rethrows(CurrentPhase(c))
        /\ phaseStatus' = [phaseStatus EXCEPT ![CurrentPhase(c)] = "error"]
        /\ lcTrace' = Traced(c.op, "phaseError", CurrentPhase(c), 0)
        /\ ContainerPublish("lifecycle.phase.error")
        /\ lcall' = [lcall EXCEPT ![t].pc = "phaseFailed", ![t].err = "HookFailure"]
  /\ UNCHANGED <<phases, phaseKeys, hooks, lcRunning, kernelRunning, nextHook, hookFailures,
                 lcResult>>
  /\ UNCHANGED <<running, svcAll, plugAll, kernAll>>

\* executePhase returned: the next phase is entered, or the loop is over
\* and 'lifecycle.started' / 'lifecycle.stopped' is published
NextPhase(t) ==
  /\ InLifecycleCall(t, {"phaseDone"})
  /\ LET c == lcall[t]
     IN IF c.pi < Len(c.order)
        THEN /\ ExecutePhase(t, c, c.order, c.pi + 1)
             /\ UNCHANGED lcRunning
        ELSE /\ lcRunning' = IF c.op = "stop" THEN FALSE ELSE lcRunning
             /\ ContainerPublish(IF c.op = "stop" THEN "lifecycle.stopped"
                                 ELSE "lifecycle.started")
             /\ lcall' = [lcall EXCEPT ![t].pc = "finishing"]
             /\ UNCHANGED <<phaseStatus, lcTrace>>
  /\ UNCHANGED <<phases, phaseKeys, hooks, kernelRunning, nextHook, hookFailures, lcResult>>
  /\ UNCHANGED <<running, svcAll, plugAll, kernAll>>

\* the catch of start() / stop()
LifecycleFailed(t) ==
  /\ InLifecycleCall(t, {"phaseFailed"})
  /\ lcRunning' = FALSE
  /\ ContainerPublish(IF lcall[t].op = "stop" THEN "lifecycle.stop.error"
                      ELSE "lifecycle.start.error")
  /\ lcall' = [lcall EXCEPT ![t].pc = "failing"]
  /\ UNCHANGED <<phases, phaseKeys, hooks, phaseStatus, kernelRunning, nextHook, lcObsVars>>
  /\ UNCHANGED <<running, svcAll, plugAll, kernAll>>

\* Microkernel: what follows `await this.lifecycleManager.start()` /
\* `await this.lifecycleManager.stop()` when the promise is fulfilled
KernelContinues(t, c) ==
  /\ kernelRunning' = IF c.op = "stop" THEN FALSE ELSE kernelRunning
  /\ ContainerPublish(IF c.op = "stop" THEN "microkernel.stopped" ELSE "microkernel.started")
  /\ lcall' = [lcall EXCEPT ![t] = [c EXCEPT !.pc = "kfinishing"]]

KernelCatchKeepsRunning(t, c, err) ==
  /\ UNCHANGED kernelRunning
  /\ ContainerPublish(IF c.op = "stop" THEN "microkernel.stop.error"
                      ELSE "microkernel.start.error")
  /\ lcall' = [lcall EXCEPT ![t] = [c EXCEPT !.pc = "kfailing", !.err = err]]

\* Microkernel: the catch of start() / stop()
KernelCatches(t, c, err) ==
  /\ kernelRunning' = FALSE
  /\ ContainerPublish(IF c.op = "stop" THEN "microkernel.stop.error"
                      ELSE "microkernel.start.error")
  /\ lcall' = [lcall EXCEPT ![t] = [c EXCEPT !.pc = "kfailing", !.err = err]]

\* start() / stop() of the LifecycleManager returns
LifecycleReturned(t) ==
  /\ InLifecycleCall(t, {"finishing"})
  /\ IF lcall[t].kernel
     THEN /\ KernelContinues(t, lcall[t])
          /\ UNCHANGED lcResult
     ELSE /\ lcResult' = Settled(lcall[t].op, lcall[t].kernel, "ok")
          /\ lcall' = [lcall EXCEPT ![t] = NoLifecycleCall]
          /\ UNCHANGED <<kernelRunning, busQuiet>>
  /\ UNCHANGED <<phases, phaseKeys, hooks, phaseStatus, lcRunning, nextHook, lcTrace,
                 hookFailures>>
  /\ UNCHANGED <<running, svcAll, plugAll, kernAll>>

\* start() / stop() of the LifecycleManager rethrows
LifecycleThrew(t) ==
  /\ InLifecycleCall(t, {"failing"})
  /\ IF lcall[t].kernel
     THEN /\ KernelCatches(t, lcall[t], lcall[t].err)
          /\ UNCHANGED lcResult
     ELSE /\ lcResult' = Settled(lcall[t].op, lcall[t].kernel, lcall[t].err)
          /\ lcall' = [lcall EXCEPT ![t] = NoLifecycleCall]
          /\ UNCHANGED <<kernelRunning, busQuiet>>
  /\ UNCHANGED <<phases, phaseKeys, hooks, phaseStatus, lcRunning, nextHook, lcTrace,
                 hookFailures>>
  /\ UNCHANGED <<running, svcAll, plugAll, kernAll>>

\* ------------------------------------------------------------- Microkernel
\* if (this.isRunning) of Microkernel.start
KernelAlreadyRunning == kernelRunning

\* Microkernel.start() up to its first await
KernelStart(t) ==
  /\ running = 0
  /\ LifecycleIdle(t)
  /\ IF KernelAlreadyRunning
     THEN /\ lcResult' = Settled("start", TRUE, "AlreadyRunning")
          /\ UNCHANGED <<kernelRunning, lcall, busQuiet>>
     ELSE /\ UNCHANGED lcResult
          /\ kernelRunning' = TRUE
          /\ ContainerPublish("microkernel.starting")
          /\ lcall' = [lcall EXCEPT ![t] = LifecycleCall("start", TRUE, "kstarting")]
  /\ UNCHANGED <<phases, phaseKeys, hooks, phaseStatus, lcRunning, nextHook, lcTrace,
                 hookFailures>>
  /\ UNCHANGED <<running, svcAll, plugAll, kernAll>>

\* Microkernel.stop() up to its first await
KernelStop(t) ==
  /\ running = 0
  /\ LifecycleIdle(t)
  /\ IF ~kernelRunning
     THEN /\ lcResult' = Settled("stop", TRUE, "ok")
          /\ UNCHANGED <<lcall, busQuiet>>
     ELSE /\ UNCHANGED lcResult
          /\ ContainerPublish("microkernel.stopping")
          /\ lcall' = [lcall EXCEPT ![t] = LifecycleCall("stop", TRUE, "kstarting")]
  /\ UNCHANGED <<phases, phaseKeys, hooks, phaseStatus, lcRunning, kernelRunning, nextHook,
                 lcTrace, hookFailures>>
  /\ UNCHANGED <<running, svcAll, plugAll, kernAll>>

\* await this.lifecycleManager.start() / stop(): the call itself, up to the
\* first await inside the LifecycleManager
KernelCallsLifecycle(t) ==
  /\ InLifecycleCall(t, {"kstarting"})
  /\ LET c == lcall[t]
     IN IF c.op = "start"
        THEN IF LifecycleAlreadyRunning
             THEN /\ KernelCatches(t, c, "AlreadyRunning")
                  /\ UNCHANGED <<lcRunning, lcTrace>>
             ELSE /\ lcRunning' = TRUE
                  /\ ContainerPublish("lifecycle.starting")
                  /\ lcall' = [lcall EXCEPT ![t].pc = "starting"]
                  /\ lcTrace' = [lcTrace EXCEPT !["start"] = <<>>]
                  /\ UNCHANGED kernelRunning
        ELSE IF ~lcRunning
             THEN /\ KernelContinues(t, c)
                  /\ UNCHANGED <<lcRunning, lcTrace>>
             ELSE /\ ContainerPublish("lifecycle.stopping")
                  /\ lcall' = [lcall EXCEPT ![t].pc = "starting"]
                  /\ lcTrace' = [lcTrace EXCEPT !["stop"] = <<>>]
                  /\ UNCHANGED <<lcRunning, kernelRunning>>
  /\ UNCHANGED <<phases, phaseKeys, hooks, phaseStatus, nextHook, hookFailures, lcResult>>
  /\ UNCHANGED <<running, svcAll, plugAll, kernAll>>

\* Microkernel.start() / stop() returns
KernelReturned(t) ==
  /\ InLifecycleCall(t, {"kfinishing"})
  /\ lcResult' = Settled(lcall[t].op, lcall[t].kernel, "ok")
  /\ lcall' = [lcall EXCEPT ![t] = NoLifecycleCall]
  /\ UNCHANGED <<phases, phaseKeys, hooks, phaseStatus, lcRunning, kernelRunning, nextHook,
                 lcTrace, hookFailures, busQuiet>>
  /\ UNCHANGED <<running, svcAll, plugAll, kernAll>>

\* Microkernel.start() / stop() rethrows
KernelThrew(t) ==
  /\ InLifecycleCall(t, {"kfailing"})
  /\ lcResult' = Settled(lcall[t].op, lcall[t].kernel, lcall[t].err)
  /\ lcall' = [lcall EXCEPT ![t] = NoLifecycleCall]
  /\ UNCHANGED <<phases, phaseKeys, hooks, phaseStatus, lcRunning, kernelRunning, nextHook,
                 lcTrace, hookFailures, busQuiet>>
  /\ UNCHANGED <<running, svcAll, plugAll, kernAll>>

\* ------------------------------------------------------------- Microkernel construction
\* the module-level eventBus, serviceContainer and configManager every
\* Microkernel is wired to
ModuleEventBus == Object(0 - 1)
ModuleServiceContainer == Object(0 - 2)
ModuleConfigManager == Object(0 - 3)

\* what the constructor makes: the kernel itself, new PluginRegistry(...) and
\* new LifecycleManager(...)
NewKernel(n) ==
  [self |-> Object(n + 1), pluginRegistry |-> Object(n + 2),
   lifecycleManager |-> Object(n + 3), outcome |-> "ok"]

\* the instance registerCoreServices registers under a fixed id
Component(k, id) ==
  CASE id = "microkernel" -> k.self
    [] id = "eventBus" -> ModuleEventBus
    [] id = "pluginRegistry" -> k.pluginRegistry
    [] id = "serviceContainer" -> ModuleServiceContainer
    [] id = "configManager" -> ModuleConfigManager
    [] OTHER -> k.lifecycleManager

\* registerCoreServices: registerInstance for CoreIds[i], CoreIds[i + 1], ...
\* on the shared container, up to the first id that is already registered
RECURSIVE RegisterCoreServices(_, _, _, _)
RegisterCoreServices(svc, keys, k, i) ==
  IF i > Len(CoreIds)
  THEN [services |-> svc, keys |-> keys, registered |-> i - 1, threw |-> FALSE]
  ELSE IF CoreIds[i] \in DOMAIN svc
  THEN [services |-> svc, keys |-> keys, registered |-> i - 1, threw |-> TRUE]
  ELSE RegisterCoreServices(
         [id \in DOMAIN svc \cup {CoreIds[i]} |->
            IF id = CoreIds[i]
            THEN ServiceDef(ConstFactory(Component(k, CoreIds[i])), TRUE, <<>>)
            ELSE svc[id]],
         Append(keys, CoreIds[i]), k, i + 1)

RECURSIVE AddAllToHistory(_, _, _, _)
AddAllToHistory(hist, e, n, max) ==
  IF n = 0 THEN hist ELSE AddAllToHistory(AddToHistory(hist, e, max), e + 1, n - 1, max)

\* several publishes in a row by a component, on a bus that is not delivering
\* and has no subscriber for their types
ContainerPublishAll(types) ==
  LET e == Len(evType)
      n == Len(types)
  IN /\ ~ShouldQueue
     /\ \A i \in 1..n : Listeners(types[i]) = {}
     /\ evType' = evType \o types
     /\ parent' = parent \o [i \in 1..n |-> 0]
     /\ invoked' = invoked \o [i \in 1..n |-> <<>>]
     /\ subsAtStart' = subsAtStart \o [i \in 1..n |-> {}]
     /\ eventHistory' = AddAllToHistory(eventHistory, e + 1, n, maxHistorySize)
     /\ sinceClear' = sinceClear \o [i \in 1..n |-> e + i]
     /\ done' = done \cup (e + 1)..(e + n)
     /\ returned' = returned \cup (e + 1)..(e + n)
     /\ UNCHANGED <<busRest, obsRest>>

\* new Microkernel(options): the LifecycleManager it makes registers its six
\* default phases, then registerCoreServices runs; a duplicate id makes
\* registerInstance, and with it the constructor, throw.  The listeners of
\* setupEventListeners only log and are left out.
NewMicrokernel ==
  /\ running = 0
  /\ LET k == NewKernel(nextObj)
         r == RegisterCoreServices(services, serviceKeys, k, 1)
         last == IF r.threw THEN r.registered + 1 ELSE r.registered
     IN /\ services' = r.services
        /\ serviceKeys' = r.keys
        /\ nextObj' = nextObj + 3
        /\ kernels' = Append(kernels, [k EXCEPT !.outcome = IF r.threw THEN "DuplicateService"
                                                           ELSE "ok"])
        /\ svcResult' = [n |-> svcResult.n + last, op |-> "register", id |-> CoreIds[last],
                         outcome |-> IF r.threw THEN "DuplicateService" ELSE "ok",
                         v |-> Undefined]
        /\ ContainerPublishAll([i \in 1..Len(DefaultPhases) |-> "lifecycle.phase.registered"]
                               \o [i \in 1..r.registered |-> "service.registered"])
  /\ UNCHANGED <<resolving, rstack, thrown, factoryCalls, firstInst, callsAtFirst, lastRet, validation>>
  /\ UNCHANGED <<running, plugAll, lcAll, kcall, kplugResult>>

\* getService(serviceId): return this.serviceContainer.resolve(serviceId)
GetService(t, serviceId) == Resolve(t, serviceId)

\* ------------------------------------------------------------- Microkernel plugin operations
AlwaysRunning == FALSE

\* if (!this.isRunning) throw new Error('Microkernel is not running')
KernelNotRunning == ~kernelRunning

KernelIdle(t) == kcall[t].op = "none" /\ LifecycleIdle(t)

\* Microkernel.loadPlugin / registerPlugin / unloadPlugin up to the call of the
\* registry
KernelPluginCall(t, op, id) ==
  /\ running = 0
  /\ KernelIdle(t)
  /\ IF KernelNotRunning
     THEN /\ kplugResult' = [n |-> kplugResult.n + 1, op |-> op, id |-> id,
                             outcome |-> "NotRunning"]
          /\ UNCHANGED kcall
     ELSE /\ kcall' = [kcall EXCEPT ![t] = [op |-> op, id |-> id, n |-> plugResult.n]]
          /\ UNCHANGED kplugResult
  /\ UNCHANGED <<running, kernels, busQuiet, svcAll, plugAll, lcAll>>

\* the registry call the kernel operation makes has not been made yet
RegistryCallDue(t, op, id) ==
  /\ kcall[t].op = op
  /\ kcall[t].id = id
  /\ kcall[t].n = plugResult.n

\* await this.pluginRegistry.registerPlugin(pluginInstance, options)
KernelRegisterPlugin(t, id, dependencies, init, cleanup) ==
  /\ RegistryCallDue(t, "register", id)
  /\ RegisterPlugin(t, id, dependencies, init, cleanup, FALSE)

\* await this.pluginRegistry.loadPlugin(manifest)
KernelLoadPlugin(t, id, dependencies) ==
  /\ RegistryCallDue(t, "load", id)
  /\ LoadPlugin(t, id, dependencies, FALSE)

\* await this.pluginRegistry.unloadPlugin(pluginId)
KernelUnloadPlugin(t, id) ==
  /\ RegistryCallDue(t, "unload", id)
  /\ UnloadPlugin(t, id)

\* the registry call has settled: the kernel publishes its own event (none when
\* unloadPlugin returned false) and returns or rethrows
KernelPluginSettled(t) ==
  /\ running = 0
  /\ kcall[t].op # "none"
  /\ PluginIdle(t)
  /\ plugResult.n = kcall[t].n + 1
  /\ LET c == kcall[t]
         ok == plugResult.outcome \in {"ok", "existing", "true", "false"}
         ty == CASE c.op = "register" /\ ok -> "microkernel.plugin.registered"
                 [] c.op = "register" /\ ~ok -> "microkernel.plugin.register.error"
                 [] c.op = "load" /\ ok -> "microkernel.plugin.loaded"
                 [] c.op = "load" /\ ~ok -> "microkernel.plugin.load.error"
                 [] c.op = "unload" /\ ok -> "microkernel.plugin.unloaded"
                 [] OTHER -> "microkernel.plugin.unload.error"
     IN /\ IF plugResult.outcome = "false"
           THEN UNCHANGED busQuiet
           ELSE ContainerPublish(ty)
        /\ kplugResult' = [n |-> kplugResult.n + 1, op |-> c.op, id |-> c.id,
                           outcome |-> plugResult.outcome]
  /\ kcall' = [kcall EXCEPT ![t] = NoKernelCall]
  /\ UNCHANGED <<running, kernels, svcAll, plugAll, lcAll>>

\* ------------------------------------------------------------- specifications
DeliverStep(t) ==
  \/ HandlerAwait(t)
  \/ HandlerReturn(t)
  \/ HandlerThrow(t)
  \/ PeInvokeGlobal(t)
  \/ PeInvokeTyped(t)
  \/ PeFinallyReturn(t)
  \/ PeFinallyDrain(t)
  \/ DrainNext(t)
  \/ DrainDone(t)

\* subscriptions are set up before the first event is published
InSetup(maxSubs) == evType = <<>> /\ Len(subOf) < maxSubs

MayPublish(maxEvents) == Len(evType) < maxEvents

\* independent callers publish events of one type concurrently
Next ==
  \/ \E t \in Tasks, ty \in ConcTypes : MayPublish(MaxConcEvents) /\ Publish(t, ty)
  \/ \E t \in Tasks, ty \in ConcTypes : MayPublish(MaxConcEvents) /\ HandlerPublish(t, ty)
  \/ \E t \in Tasks : DeliverStep(t)
  \/ \E ty \in Types, p \in Priorities : InSetup(MaxConcSubs) /\ Subscribe(ty, p, 0)
  \/ \E p \in Priorities : InSetup(MaxConcSubs) /\ SubscribeToAll(p)

Spec == Init /\ [][Next]_vars

\* independent callers publish, and every delivery step that can be taken is
\* eventually taken: handlers terminate and awaited promises settle
NextLive ==
  \/ \E t \in Tasks, ty \in ConcTypes : MayPublish(MaxLiveEvents) /\ Publish(t, ty)
  \/ \E t \in Tasks, ty \in ConcTypes : MayPublish(MaxLiveEvents) /\ HandlerPublish(t, ty)
  \/ \E t \in Tasks : DeliverStep(t)
  \/ \E ty \in Types, p \in Priorities : InSetup(MaxConcSubs) /\ Subscribe(ty, p, 0)
  \/ \E p \in Priorities : InSetup(MaxConcSubs) /\ SubscribeToAll(p)

SpecLive == Init /\ [][NextLive]_vars /\ WF_vars(\E t \in Tasks : DeliverStep(t))

\* one caller at a time: every call is made by task 1 or by a handler it runs
NextSeq ==
  \/ \E ty \in Types : MayPublish(MaxEvents) /\ Publish(1, ty)
  \/ \E ty \in Types : MayPublish(MaxEvents) /\ HandlerPublish(1, ty)
  \/ DeliverStep(1)
  \/ \E ty \in Types, p \in Priorities : InSetup(MaxSubs) /\ Subscribe(ty, p, 0)
  \/ \E p \in Priorities : InSetup(MaxSubs) /\ SubscribeToAll(p)

SpecSeq == Init /\ [][NextSeq]_vars

\* one caller, more subscriptions, fewer events
NextOrder ==
  \/ \E ty \in Types : MayPublish(MaxOrderEvents) /\ Publish(1, ty)
  \/ \E ty \in Types : MayPublish(MaxOrderEvents) /\ HandlerPublish(1, ty)
  \/ DeliverStep(1)
  \/ \E ty \in Types, p \in Priorities : InSetup(MaxOrderSubs) /\ Subscribe(ty, p, 0)
  \/ \E p \in Priorities : InSetup(MaxOrderSubs) /\ SubscribeToAll(p)

SpecOrder == Init /\ [][NextOrder]_vars

\* one caller that also resizes and clears the history
NextHist ==
  \/ \E ty \in Types : MayPublish(MaxHistEvents) /\ Publish(1, ty)
  \/ \E ty \in Types : MayPublish(MaxHistEvents) /\ HandlerPublish(1, ty)
  \/ DeliverStep(1)
  \/ \E ty \in Types, p \in Priorities : InSetup(MaxHistSubs) /\ Subscribe(ty, p, 0)
  \/ \E p \in Priorities : InSetup(MaxHistSubs) /\ SubscribeToAll(p)
  \/ \E size \in 0..MaxHist : SetMaxHistorySize(size)
  \/ ClearHistory

SpecHist == Init /\ [][NextHist]_vars

\* ids a caller hands to subscribe (0: none, the bus generates one) or to
\* unsubscribe
SuppliedIds == {0, 9}
UnsubscribeIds == (1..MaxUnsubSubs) \cup {9}

\* one caller that subscribes, publishes and unsubscribes, also while a
\* delivery waits for a handler
NextUnsub ==
  \/ \E ty \in Types : MayPublish(MaxUnsubEvents) /\ Publish(1, ty)
  \/ \E ty \in Types : MayPublish(MaxUnsubEvents) /\ HandlerPublish(1, ty)
  \/ DeliverStep(1)
  \/ \E ty \in Types, id \in SuppliedIds :
       InSetup(MaxUnsubSubs) /\ Subscribe(ty, 1, id)
  \/ InSetup(MaxUnsubSubs) /\ SubscribeToAll(1)
  \/ \E id \in UnsubscribeIds : lastUnsub.n < MaxUnsubs /\ Unsubscribe(id)

SpecUnsub == Init /\ [][NextUnsub]_vars

\* one caller at a time registers and resolves services
MayCall == svcResult.n < MaxSvcCalls /\ rstack[1] = <<>>

NextSvc ==
  \/ \E id \in SvcIds, k \in FactoryKinds, deps \in DepLists :
       MayCall /\ RegisterSingleton(id, Factory(k), deps)
  \/ \E id \in SvcIds, k \in FactoryKinds, deps \in DepLists :
       MayCall /\ RegisterTransient(id, Factory(k), deps)
  \/ \E id \in SvcIds, kind \in {"object", "falsy"} :
       MayCall /\ RegisterInstance(id, kind)
  \/ \E id \in SvcIds : MayCall /\ Resolve(1, id)
  \/ ResolveDependency(1)
  \/ DependencyFailed(1)
  \/ InvokeFactory(1)
  \/ FactoryReturned(1)
  \/ FactoryThrew(1)

SpecSvc == Init /\ [][NextSvc]_vars

\* registrations, removals and resolutions, one call at a time
NextUnreg ==
  \/ \E id \in SvcIds, deps \in DepLists :
       MayCall /\ RegisterSingleton(id, Factory("new"), deps)
  \/ \E id \in SvcIds : MayCall /\ Unregister(id)
  \/ \E id \in SvcIds : MayCall /\ Resolve(1, id)
  \/ ResolveDependency(1)
  \/ DependencyFailed(1)
  \/ InvokeFactory(1)
  \/ FactoryReturned(1)

SpecUnreg == Init /\ [][NextUnreg]_vars

\* calls on the plugin registry, one at a time
MayCallPlugin == plugResult.n < MaxPlugCalls /\ PluginIdle(1)

NextPlug ==
  \/ \E id \in PluginIds, deps \in PluginDepLists, init \in {"none", "ok", "throws"},
        cleanup \in {"none", "ok", "throws"}, force \in BOOLEAN :
       MayCallPlugin /\ RegisterPlugin(1, id, deps, init, cleanup, force)
  \/ \E id \in PluginIds, deps \in PluginDepLists, force \in BOOLEAN :
       MayCallPlugin /\ LoadPlugin(1, id, deps, force)
  \/ \E id \in PluginIds : MayCallPlugin /\ UnloadPlugin(1, id)
  \/ \E id \in PluginIds, status \in PluginStatus :
       MayCallPlugin /\ SetPluginStatus(1, id, status)
  \/ ValidatePluginDependencies(1)
  \/ StorePlugin(1)
  \/ InitReturned(1)
  \/ InitThrew(1)
  \/ RecordLoadError(1)
  \/ LoadReturned(1)
  \/ CallCleanup(1)
  \/ CleanupReturned(1)
  \/ CleanupThrew(1)
  \/ UnloadFailed(1)
  \/ ReturnTrue(1)

SpecPlug == Init /\ [][NextPlug]_vars

\* two callers register plugins, each call running up to its next await while
\* the other is suspended
NextPlugConc ==
  \/ \E t \in Tasks, id \in PluginIds, deps \in PluginDepLists,
        init \in {"none", "ok", "throws"} :
       /\ plugResult.n < MaxConcPlugCalls
       /\ RegisterPlugin(t, id, deps, init, "none", FALSE)
  \/ \E t \in Tasks : ValidatePluginDependencies(t)
  \/ \E t \in Tasks : StorePlugin(t)
  \/ \E t \in Tasks : InitReturned(t)
  \/ \E t \in Tasks : InitThrew(t)
  \/ \E t \in Tasks : RecordLoadError(t)
  \/ \E t \in Tasks : LoadReturned(t)

SpecPlugConc == Init /\ [][NextPlugConc]_vars

\* two logically concurrent callers of one container: a caller may issue a
\* top-level resolve while the other is suspended at an await
MayCallAs(t) == svcResult.n < MaxSvcCalls /\ rstack[t] = <<>>
NoResolveInProgress == \A t \in Tasks : rstack[t] = <<>>

NextConc ==
  \/ \E id \in SvcIds, deps \in DepLists :
       /\ svcResult.n < MaxSvcCalls
       /\ NoResolveInProgress
       /\ RegisterSingleton(id, Factory("new"), deps)
  \/ \E t \in Tasks, id \in SvcIds : MayCallAs(t) /\ Resolve(t, id)
  \/ \E t \in Tasks : ResolveDependency(t)
  \/ \E t \in Tasks : DependencyFailed(t)
  \/ \E t \in Tasks : InvokeFactory(t)
  \/ \E t \in Tasks : FactoryReturned(t)

SpecConc == Init /\ [][NextConc]_vars

\* kernels constructed one after another in one process, and getService on
\* the fixed ids
NextNew ==
  \/ /\ Len(kernels) < MaxKernels
     /\ NoResolveInProgress
     /\ NewMicrokernel
  \/ \E id \in Range(CoreIds) :
       /\ svcResult.n < Len(CoreIds) * MaxKernels + MaxGetService
       /\ rstack[1] = <<>>
       /\ \E i \in 1..Len(kernels) : kernels[i].outcome = "ok"
       /\ GetService(1, id)
  \/ InvokeFactory(1)
  \/ FactoryReturned(1)

SpecNew == Init /\ [][NextNew]_vars

\* a Microkernel that is started and stopped, and whose plugin operations are
\* called one at a time whether it is running or not
MayCallKernel ==
  /\ lcResult.n + kplugResult.n < MaxKernelCalls
  /\ KernelIdle(1)

NextKernel ==
  \/ MayCallKernel /\ KernelStart(1)
  \/ MayCallKernel /\ KernelStop(1)
  \/ KernelCallsLifecycle(1)
  \/ SortPhases(1)
  \/ SelectHooks(1)
  \/ NextPhase(1)
  \/ LifecycleReturned(1)
  \/ KernelReturned(1)
  \/ \E op \in {"register", "load", "unload"}, id \in PluginIds :
       MayCallKernel /\ KernelPluginCall(1, op, id)
  \/ \E id \in PluginIds, deps \in {<<>>, <<"P1">>}, init \in {"ok", "throws"} :
       KernelRegisterPlugin(1, id, deps, init, "ok")
  \/ \E id \in PluginIds, deps \in {<<>>, <<"P1">>} : KernelLoadPlugin(1, id, deps)
  \/ \E id \in PluginIds : KernelUnloadPlugin(1, id)
  \/ ValidatePluginDependencies(1)
  \/ StorePlugin(1)
  \/ InitReturned(1)
  \/ InitThrew(1)
  \/ RecordLoadError(1)
  \/ LoadReturned(1)
  \/ CallCleanup(1)
  \/ CleanupReturned(1)
  \/ ReturnTrue(1)
  \/ KernelPluginSettled(1)

SpecKernel == Init /\ [][NextKernel]_vars

\* three services registered with their dependency lists, then resolved
NextDeps ==
  \/ \E id \in OrderIds, k \in {"new", "throws"}, deps \in OrderDepLists :
       /\ svcResult.n < MaxDepCalls
       /\ rstack[1] = <<>>
       /\ id \notin DOMAIN services
       /\ factoryCalls = [i \in DOMAIN factoryCalls |-> 0]
       /\ RegisterSingleton(id, Factory(k), deps)
  \/ \E id \in OrderIds :
       /\ svcResult.n < MaxDepCalls
       /\ rstack[1] = <<>>
       /\ Resolve(1, id)
  \/ validation.n < MaxValidations /\ ValidateDependenciesCall
  \/ ResolveDependency(1)
  \/ DependencyFailed(1)
  \/ InvokeFactory(1)
  \/ FactoryReturned(1)
  \/ FactoryThrew(1)

SpecDeps == Init /\ [][NextDeps]_vars

\* A LifecycleManager with its phase and hook registrations made before the
\* first start, driven by one caller: either directly, or through the Microkernel
\* that owns it (the kernel keeps its LifecycleManager private).
LifecycleSetup == lcResult.n = 0 /\ LifecycleIdle(1)
MayCallLifecycle == lcResult.n < MaxLcCalls /\ LifecycleIdle(1)
DirectCalls == ~kernelRunning /\ (lcResult.n = 0 \/ ~lcResult.kernel)
KernelCalls == lcResult.n = 0 \/ lcResult.kernel

NextLife ==
  \/ \E name \in ExtraPhases, order \in ExtraOrders :
       /\ LifecycleSetup
       /\ name \notin DOMAIN phases
       /\ Len(phaseKeys) < Len(DefaultPhases) + MaxLcPhases
       /\ RegisterPhase(name, order)
  \/ \E phase \in HookPhases, priority \in Priorities, enabled \in BOOLEAN :
       /\ LifecycleSetup
       /\ nextHook < MaxLcHooks
       /\ RegisterHook(phase, priority, enabled)
  \/ MayCallLifecycle /\ DirectCalls /\ LifecycleStart(1)
  \/ MayCallLifecycle /\ DirectCalls /\ LifecycleStop(1)
  \/ MayCallLifecycle /\ KernelCalls /\ KernelStart(1)
  \/ MayCallLifecycle /\ KernelCalls /\ KernelStop(1)
  \/ KernelCallsLifecycle(1)
  \/ SortPhases(1)
  \/ SelectHooks(1)
  \/ HookReturned(1)
  \/ HookThrew(1)
  \/ AfterHook(1)
  \/ PhaseFailed(1)
  \/ NextPhase(1)
  \/ LifecycleFailed(1)
  \/ LifecycleReturned(1)
  \/ LifecycleThrew(1)
  \/ KernelReturned(1)
  \/ KernelThrew(1)

SpecLife == Init /\ [][NextLife]_vars

\* two callers of the LifecycleManager: a call may be made while the other
\* caller's call is suspended at an await
CallsInProgress == Cardinality({t \in Tasks : lcall[t].op # "none"})
MayCallConcurrently(t) ==
  /\ lcResult.n + CallsInProgress < MaxConcLcCalls
  /\ LifecycleIdle(t)

\* the events published so far stay below the bound of the exploration
ConcEventsLeft == Len(evType) < MaxConcLcEvents

NextLifeConc ==
  \/ \E phase \in HookPhases, priority \in Priorities :
       /\ lcResult.n = 0
       /\ CallsInProgress = 0
       /\ nextHook < MaxConcLcHooks
       /\ RegisterHook(phase, priority, TRUE)
  \/ \E t \in Tasks : MayCallConcurrently(t) /\ LifecycleStart(t)
  \/ \E t \in Tasks : MayCallConcurrently(t) /\ LifecycleStop(t)
  \/ \E t \in Tasks : ConcEventsLeft /\ SortPhases(t)
  \/ \E t \in Tasks : ConcEventsLeft /\ SelectHooks(t)
  \/ \E t \in Tasks : ConcEventsLeft /\ HookReturned(t)
  \/ \E t \in Tasks : ConcEventsLeft /\ AfterHook(t)
  \/ \E t \in Tasks : ConcEventsLeft /\ NextPhase(t)
  \/ \E t \in Tasks : ConcEventsLeft /\ LifecycleReturned(t)

SpecLifeConc == Init /\ [][NextLifeConc]_vars

\* ------------------------------------------------------------- properties
Events == 1..Len(evType)

Idle == \A t \in Tasks : stack[t] = <<>>

RECURSIVE Root(_)
Root(e) == IF parent[e] = 0 THEN e ELSE Root(parent[e])

IsWildcard(h) == subOf[h].eventType = "*"

\* C1: an event published by a handler of E1 gets no handler invoked before every
\* handler of E1 has completed, and all its handlers have completed when the
\* top-level publish that led to it returns.
NestedPublishDeferred ==
  \A e \in Events :
    parent[e] # 0 =>
      /\ invoked[e] # <<>> => parent[e] \in done
      /\ Root(e) \in returned \ queued => e \in done

NestedPublishDelivered ==
  \E e \in Events :
    /\ parent[e] # 0
    /\ invoked[e] # <<>>
    /\ e \in done
    /\ Root(e) \in returned \ queued

\* C2: of two queued events, the one published first has all its handlers run
\* before any handler of the other is invoked.
QueuedInPublishOrder ==
  \A a \in queued, b \in queued :
    (a < b /\ invoked[b] # <<>> /\ Listeners(evType[a]) # {})
      => a \in done

\* C3: handlers of at most one event are in progress at any moment.
OneEventAtATime ==
  Cardinality({f.ev : f \in {g \in Frames : g.k = "h"}}) <= 1

\* C4: a delivered event has invoked exactly the handlers subscribed to "*" or to
\* its own type, each once, the wildcard ones first, each group by descending
\* priority.
InvokedInOrder(e) ==
  \A i \in 1..Len(invoked[e]), j \in 1..Len(invoked[e]) :
    i < j =>
      LET a == invoked[e][i]
          b == invoked[e][j]
      IN /\ a # b
         /\ IsWildcard(b) => IsWildcard(a)
         /\ IsWildcard(a) = IsWildcard(b) => subOf[a].priority >= subOf[b].priority

DeliveryOrder ==
  \A e \in Events \ dirty :
    /\ InvokedInOrder(e)
    /\ \A i \in 1..Len(invoked[e]) :
         subOf[invoked[e][i]].eventType \in {"*", evType[e]}
    /\ e \in done =>
         Range(invoked[e]) =
           {h \in 1..Len(subOf) : subOf[h].eventType \in {"*", evType[e]}}

DeliveredToThree ==
  \E e \in done :
    /\ Len(invoked[e]) = 3
    /\ IsWildcard(invoked[e][1])
    /\ ~IsWildcard(invoked[e][2])
    /\ subOf[invoked[e][1]].priority < subOf[invoked[e][2]].priority
    /\ subOf[invoked[e][2]].priority > subOf[invoked[e][3]].priority
    /\ invoked[e][2] > invoked[e][3]

\* C5: a handler that throws stops nothing: the other handlers of the event are
\* still invoked, queued events are still delivered, and the top-level publish
\* returns.
FailureIsolated ==
  /\ \A e \in done \ dirty : Range(invoked[e]) = subsAtStart[e]
  /\ Idle => pendingEvents = <<>> /\ done = Events /\ {Root(e) : e \in Events} \subseteq returned

FailureSurvived ==
  /\ Idle
  /\ \E e \in done, q \in queued :
       /\ Len(invoked[e]) = 2
       /\ <<e, invoked[e][1]>> \in failed
       /\ parent[q] = e
       /\ invoked[q] # <<>>

\* C6: the history never holds more events than maxHistorySize.
HistoryBounded == Len(eventHistory) <= maxHistorySize

\* C7: with the size left alone since the last clearHistory, the history is the
\* last min(k, N) of the k events published since then, in publish order, the
\* queued ones included.
LastOf(seq, n) == SubSeq(seq, Len(seq) - n + 1, Len(seq))

HistoryIsRecentPublishes ==
  (~resized /\ maxHistorySize >= 1) =>
     eventHistory = LastOf(sinceClear, Min(Len(sinceClear), maxHistorySize))

HistoryEvictedWhileQueued ==
  /\ ~resized
  /\ maxHistorySize >= 1
  /\ Len(sinceClear) > maxHistorySize
  /\ pendingEvents # <<>>
  /\ pendingEvents[Len(pendingEvents)] = eventHistory[Len(eventHistory)]

\* ---- ServiceContainer properties

DependsOn(a, b) ==
  a \in DOMAIN services /\ \E i \in 1..Len(services[a].dependencies) :
                             services[a].dependencies[i] = b

\* C8: once resolve(id) on a singleton has succeeded, the factory is never
\* invoked again and every later resolve(id) returns the instance the first
\* successful resolve produced, whatever value that was.
SingletonReused ==
  \A id \in DOMAIN services :
    (services[id].singleton /\ callsAtFirst[id] > 0) =>
      /\ factoryCalls[id] = callsAtFirst[id]
      /\ (lastRet.id = id => lastRet.v = firstInst[id])

\* C9: a register call (through any of the four entry points) on an id that is
\* already registered fails, and leaves the service map, with the existing
\* definition's factory, singleton flag, dependencies and cached instance,
\* exactly as it was, so that the id resolves as before; nothing is published.
DuplicateRegistrationFails ==
  [][(svcResult'.n # svcResult.n /\ svcResult'.op = "register"
        /\ svcResult'.id \in DOMAIN services)
       => /\ svcResult'.outcome = "DuplicateService"
          /\ services' = services
          /\ serviceKeys' = serviceKeys
          /\ eventHistory' = eventHistory]_vars

\* a duplicate registration was refused for a singleton holding a cached instance
DuplicateRefused ==
  /\ svcResult.op = "register"
  /\ svcResult.outcome = "DuplicateService"
  /\ services[svcResult.id].instance # Undefined
  /\ factoryCalls[svcResult.id] > 0

\* C10: when two registered services depend on each other (A -> B -> A), no
\* factory of either has been invoked, neither holds a cached instance, a
\* finished resolve of either failed with CircularDependency, and
\* validateDependencies reports valid = false with a cycle containing both.
CircularDependencyDetected ==
  \A a \in SvcIds, b \in SvcIds :
    (a # b /\ DependsOn(a, b) /\ DependsOn(b, a)) =>
      /\ factoryCalls[a] = 0 /\ factoryCalls[b] = 0
      /\ services[a].instance = Undefined /\ services[b].instance = Undefined
      /\ (svcResult.op = "resolve" /\ svcResult.id = a /\ svcResult.outcome # "pending")
           => svcResult.outcome = "CircularDependency"
      /\ ~ValidateDependencies.valid
      /\ \E i \in 1..Len(ValidateDependencies.cycles) :
           {a, b} \subseteq Range(ValidateDependencies.cycles[i])

\* resolve(A) has failed on the chain A -> B -> A
CycleResolveFailed ==
  /\ DOMAIN services = {"A", "B"}
  /\ services["A"].dependencies = <<"B">>
  /\ services["B"].dependencies = <<"A">>
  /\ svcResult.op = "resolve"
  /\ svcResult.id = "A"
  /\ svcResult.outcome = "CircularDependency"
  /\ resolving = {}

\* C11: unregister(id) on a registered id fails with HasDependents exactly when
\* some other registered service lists id in its dependencies, and then changes
\* no registration; otherwise it removes id, and only id, and returns true.
UnregisterChecksDependents ==
  [][(svcResult'.n # svcResult.n /\ svcResult'.op = "unregister"
        /\ svcResult'.id \in DOMAIN services)
       => LET id == svcResult'.id
          IN IF \E k \in DOMAIN services \ {id} : DependsOn(k, id)
             THEN /\ svcResult'.outcome = "HasDependents"
                  /\ services' = services
                  /\ serviceKeys' = serviceKeys
             ELSE /\ svcResult'.outcome = "true"
                  /\ DOMAIN services' = DOMAIN services \ {id}
                  /\ \A k \in DOMAIN services' : services'[k] = services[k]]_vars

\* ---- PluginRegistry properties

\* dep is the first id of the manifest, in manifest order, that is unknown to the
\* registry or not active
FirstMissing(manifest, dep) ==
  \E i \in 1..Len(manifest) :
    /\ manifest[i] = dep
    /\ ~(dep \in DOMAIN plugins /\ plugins[dep].status = "active")
    /\ \A j \in 1..(i - 1) :
         manifest[j] \in DOMAIN plugins /\ plugins[manifest[j]].status = "active"

\* a registerPlugin call that reaches validation with an unmet dependency fails
\* with MissingDependency naming the first unmet one, init is not called, and
\* the plugin is recorded with a status other than active
RejectsMissingDependency ==
  /\ \A dep \in PluginIds :
       (pcall[1].op = "register" /\ pcall[1].pc = "validate" /\ pcall'[1] # pcall[1]
          /\ FirstMissing(pcall[1].manifest, dep))
         => /\ pcall'[1].pc = "failed"
            /\ pcall'[1].err = [kind |-> "MissingDependency", dep |-> dep]
            /\ initCalls' = initCalls
  /\ (pcall[1].op = "register" /\ pcall[1].pc = "failed" /\ pcall'[1].op = "none"
        /\ pcall[1].err.kind = "MissingDependency")
       => /\ plugResult'.outcome = "MissingDependency"
          /\ plugResult'.info.lastError = pcall[1].err
          /\ plugins'[pcall[1].id].status = "error"
          /\ initCalls' = initCalls

\* C12 (as stated): every registerPlugin call for a plugin whose manifest lists a
\* dependency that is unknown or not active fails with an error naming the first
\* unmet dependency, does not call init, and leaves the plugin not active.
UnmetDependencyAlwaysFails ==
  [][/\ RejectsMissingDependency
     /\ (plugResult'.n # plugResult.n /\ plugResult'.op = "register"
           /\ \E dep \in PluginIds : FirstMissing(plugResult'.manifest, dep))
          => plugResult'.outcome = "pending"]_vars

\* C12 (amended): the same, for the calls that are not answered with the
\* existing info of an already active plugin (no forceReload).
UnmetDependencyFails == [][RejectsMissingDependency]_vars

\* a registration failed on the second dependency of its manifest, the first
\* being active
SecondDependencyMissing ==
  /\ plugResult.op = "register"
  /\ plugResult.outcome = "MissingDependency"
  /\ Len(plugResult.manifest) = 2
  /\ plugResult.info.lastError.dep = plugResult.manifest[2]
  /\ plugins[plugResult.id].status = "error"
  /\ initCalls[plugResult.id] = 0

\* C13: registerPlugin for an id that is present with status active, without
\* forceReload, returns the existing PluginInfo and changes nothing: init is not
\* called, no event is published, the stored infos are the same and the call
\* has already returned.
RegisterIsIdempotent ==
  [][(plugResult'.n # plugResult.n /\ plugResult'.op = "register"
        /\ ~plugResult'.forceReload
        /\ plugResult'.id \in DOMAIN plugins
        /\ plugins[plugResult'.id].status = "active")
       => /\ plugResult'.outcome = "existing"
          /\ plugResult'.info = plugins[plugResult'.id]
          /\ plugins' = plugins
          /\ pluginKeys' = pluginKeys
          /\ initCalls' = initCalls
          /\ evType' = evType
          /\ eventHistory' = eventHistory
          /\ pcall' = pcall]_vars

\* an active plugin whose init ran once was registered again with a different
\* manifest
RegisteredAgain ==
  /\ plugResult.op = "register"
  /\ plugResult.outcome = "existing"
  /\ plugResult.manifest # plugResult.info.dependencies
  /\ plugResult.info.instance.init = "ok"
  /\ initCalls[plugResult.id] = 1

\* b is an active plugin, other than a, whose manifest lists a
ActiveDependent(b, a) ==
  /\ b # a
  /\ b \in DOMAIN plugins
  /\ plugins[b].status = "active"
  /\ \E i \in 1..Len(plugins[b].dependencies) : plugins[b].dependencies[i] = a

\* C14: a plugin registered after the plugins its manifest lists is active along
\* with them and listed by getAllPlugins; unloading an active plugin that an
\* active plugin depends on (its cleanup, if any, not failing) returns true and
\* marks it unloaded, and the dependent stays active and untouched.
UnloadIgnoresDependents ==
  [][/\ (plugResult'.op = "register" /\ plugResult'.outcome = "ok"
           /\ plugResult.outcome = "pending")
          => \A k \in {plugResult'.id} \cup Range(plugResult'.manifest) :
               \E i \in 1..Len(GetAllPlugins') : /\ pluginKeys'[i] = k
                                                  /\ GetAllPlugins'[i].status = "active"
     /\ \A b \in PluginIds :
          (pcall[1].op = "unload" /\ ActiveDependent(b, pcall[1].id))
            => /\ plugins'[b] = plugins[b]
               /\ (pcall'[1].op = "none" /\ pcall[1].info.status = "active"
                     /\ pcall[1].info.instance.cleanup # "throws")
                    => /\ plugResult'.outcome = "true"
                       /\ plugins'[pcall[1].id].status = "unloaded"
                       /\ plugins'[pcall[1].id].instance = Null]_vars

\* P1, without dependencies, has been unloaded while P2, which depends on it, is
\* active
DependencyUnloaded ==
  /\ plugResult.op = "unload"
  /\ plugResult.id = "P1"
  /\ plugResult.outcome = "true"
  /\ plugResult.info.dependencies = <<>>
  /\ plugResult.info.instance.cleanup = "ok"
  /\ plugins["P1"].status = "unloaded"
  /\ ActiveDependent("P2", "P1")
  /\ pluginKeys = <<"P1", "P2">>

AllowedTransitions ==
  {<<"loading", "active">>, <<"loading", "error">>,
   <<"active", "disabled">>, <<"active", "unloaded">>}

\* the step stores the first PluginInfo of a load attempt for id
FreshLoad(id) ==
  /\ pcall[1].op \in {"register", "load"}
  /\ pcall[1].id = id
  /\ \/ pcall[1].pc = "store"
     \/ pcall[1].pc = "failed" /\ pcall[1].err.kind = "MissingDependency"

\* C20: apart from the first status a load attempt records (active or error, as
\* if from loading), the status of a plugin changes only from active to disabled
\* or to unloaded; in particular error is left only by a fresh load attempt.
StatusTransitionsMonotonic ==
  [][\A id \in DOMAIN plugins \cap DOMAIN plugins' :
       plugins'[id].status # plugins[id].status
         => \/ FreshLoad(id)
            \/ <<plugins[id].status, plugins'[id].status>> \in AllowedTransitions]_vars

\* ---- LifecycleManager properties
StartTrace == lcTrace["start"]
StopTrace == lcTrace["stop"]
PhaseEntries(trace) == SelectSeq(trace, LAMBDA e : e.k = "phase")
Invocations(trace) == SelectSeq(trace, LAMBDA e : e.k = "hook")
RegisteredHooks == UNION {{h : h \in Range(HooksOf(name))} : name \in DOMAIN hooks}
HookById(id) == CHOOSE h \in RegisteredHooks : h.id = id
EnabledHookIds == {h.id : h \in {g \in UNION {Range(HooksOf(name)) : name \in DOMAIN phases} :
                                   g.enabled}}
StartSettled(outcomes) ==
  /\ LifecycleIdle(1)
  /\ lcResult.op = "start"
  /\ lcResult.outcome \in outcomes
LastEntryBefore(trace, i) ==
  LET entries == {j \in 1..i : trace[j].k = "phase"}
  IN CHOOSE j \in entries : \A k \in entries : k <= j

\* C15: start() enters every registered phase exactly once, in ascending order
\* value; within a phase it invokes the enabled hooks, each once, in descending
\* priority; every hook runs inside its own phase and has finished before
\* anything else is invoked
StartupOrder ==
  LET ph == PhaseEntries(StartTrace)
      inv == Invocations(StartTrace)
  IN /\ \A i, j \in 1..Len(ph) :
          i < j => /\ ph[i].phase # ph[j].phase
                   /\ phases[ph[i].phase].order <= phases[ph[j].phase].order
     /\ \A i, j \in 1..Len(inv) :
          i < j => /\ inv[i].hook # inv[j].hook
                   /\ inv[i].phase = inv[j].phase =>
                        HookById(inv[i].hook).priority >= HookById(inv[j].hook).priority
     /\ \A i \in 1..Len(StartTrace) :
          StartTrace[i].k = "hook" =>
            /\ HookById(StartTrace[i].hook).enabled
            /\ StartTrace[LastEntryBefore(StartTrace, i)].phase = StartTrace[i].phase
            /\ HookById(StartTrace[i].hook) \in Range(HooksOf(StartTrace[i].phase))
            /\ i < Len(StartTrace) =>
                 /\ StartTrace[i + 1].k \in {"hookCompleted", "hookError"}
                 /\ StartTrace[i + 1].hook = StartTrace[i].hook
     /\ StartSettled({"ok"}) =>
          /\ {ph[i].phase : i \in 1..Len(ph)} = DOMAIN phases
          /\ {inv[i].hook : i \in 1..Len(inv)} = EnabledHookIds

\* a start() has returned after running an added phase and two hooks of one
\* phase that were registered in ascending priority
StartupCompleted ==
  /\ StartSettled({"ok"})
  /\ "critical" \in DOMAIN phases
  /\ \E i, j \in 1..Len(Invocations(StartTrace)) :
       LET inv == Invocations(StartTrace)
       IN /\ i < j
          /\ inv[i].phase = inv[j].phase
          /\ inv[i].hook > inv[j].hook
          /\ HookById(inv[i].hook).priority > HookById(inv[j].hook).priority

HookIds(trace) == [i \in 1..Len(Invocations(trace)) |-> Invocations(trace)[i].hook]
RanToCompletion(trace) ==
  {trace[i].phase : i \in {j \in 1..Len(trace) : trace[j].k = "phaseCompleted"}}
    = DOMAIN phases

\* C16: once start() and stop() have both run to completion on the same
\* registrations, the hook invocations of stop() are those of start() in
\* exactly the reverse sequence
ShutdownReversesStartup ==
  (RanToCompletion(StartTrace) /\ RanToCompletion(StopTrace)) =>
    HookIds(StopTrace) = Reverse(HookIds(StartTrace))

\* this step is a call of start() or stop(): the call is now in progress, or it
\* has settled at once
Called(op, kernel) ==
  /\ lcall[1].op = "none"
  /\ \/ lcall'[1].op = op /\ lcall'[1].kernel = kernel
     \/ /\ lcall' = lcall
        /\ lcResult'.n = lcResult.n + 1
        /\ lcResult'.op = op
        /\ lcResult'.kernel = kernel
SettledAtOnce(outcome) ==
  /\ lcall' = lcall
  /\ lcResult'.outcome = outcome
  /\ lcTrace' = lcTrace
  /\ phaseStatus' = phaseStatus
  /\ lcRunning' = lcRunning
  /\ kernelRunning' = kernelRunning
IsRunning(kernel) == IF kernel THEN kernelRunning ELSE lcRunning

\* C17: on the Microkernel and on the LifecycleManager alike, start() while
\* running fails with AlreadyRunning, enters no phase and leaves isRunning
\* true; stop() while not running returns normally, enters no phase and
\* publishes nothing; start() is rejected as AlreadyRunning in no other case,
\* so after a completed stop() it is accepted again and sets isRunning
RunStateMisuse ==
  [][\A kernel \in BOOLEAN :
       /\ (Called("start", kernel) /\ IsRunning(kernel)) =>
            SettledAtOnce("AlreadyRunning") /\ evType' = evType
       /\ (Called("stop", kernel) /\ ~IsRunning(kernel)) =>
            SettledAtOnce("ok") /\ evType' = evType
       /\ (Called("start", kernel) /\ ~IsRunning(kernel)) =>
            /\ lcall'[1].op = "start"
            /\ kernel => kernelRunning'
            /\ ~kernel => lcRunning'
       /\ (lcResult' # lcResult /\ lcResult'.op = "start"
             /\ lcResult'.outcome = "AlreadyRunning") => lcall' = lcall]_vars

\* start(), stop() and start() again have run on the kernel, and a further
\* start() has just been rejected
StartRejected ==
  /\ lcResult.n = MaxLcCalls
  /\ lcResult.kernel
  /\ lcResult.op = "start"
  /\ lcResult.outcome = "AlreadyRunning"
  /\ RanToCompletion(StopTrace)
  /\ RanToCompletion(StartTrace)
  /\ kernelRunning
  /\ lcRunning

FailedIn(trace) == {trace[i].phase : i \in {j \in 1..Len(trace) : trace[j].k = "hookError"}}
\* this step is the return or the rejection of a start() that had entered its
\* phases
StartSettles(kernel) ==
  /\ lcall[1].op = "start"
  /\ lcall[1].kernel = kernel
  /\ lcall'[1].op = "none"

\* C18: when a hook of a phase not named "critical" has failed during start(),
\* lifecycle.hook.error has been published, every enabled hook and every phase
\* has still been run, the phase of the failed hook is completed, start()
\* returns normally and isRunning is true
HookFailureTolerated ==
  [][\A kernel \in BOOLEAN :
       (StartSettles(kernel) /\ FailedIn(StartTrace) # {}
          /\ "critical" \notin FailedIn(StartTrace)) =>
         /\ "lifecycle.hook.error" \in Range(evType)
         /\ {HookIds(StartTrace)[i] : i \in 1..Len(HookIds(StartTrace))} = EnabledHookIds
         /\ RanToCompletion(StartTrace)
         /\ \A name \in FailedIn(StartTrace) : phaseStatus'[name] = "completed"
         /\ lcResult'.op = "start"
         /\ lcResult'.outcome = "ok"
         /\ lcRunning'
         /\ kernel => kernelRunning']_vars

\* start() has returned although the first of two hooks of a phase failed
HookFailureSurvived ==
  /\ StartSettled({"ok"})
  /\ lcRunning
  /\ \E i, j \in 1..Len(StartTrace) :
       /\ i < j
       /\ StartTrace[i].k = "hookError"
       /\ StartTrace[j].k = "hook"
       /\ StartTrace[j].phase = StartTrace[i].phase

\* C19: when a hook of the phase named "critical" has failed during start(),
\* no further hook is invoked and no further phase is entered, the phase has
\* status error, start() (of the LifecycleManager, and of the Microkernel
\* calling it) rejects with the hook's error, and isRunning is false on both
CriticalFailureAborts ==
  [][\A kernel \in BOOLEAN :
       (StartSettles(kernel) /\ "critical" \in FailedIn(StartTrace)) =>
         /\ \A i, j \in 1..Len(StartTrace) :
              (i < j /\ StartTrace[i].k = "hookError" /\ StartTrace[i].phase = "critical")
                => StartTrace[j].k = "phaseError" /\ StartTrace[j].phase = "critical"
         /\ phaseStatus'["critical"] = "error"
         /\ lcResult'.op = "start"
         /\ lcResult'.kernel = kernel
         /\ lcResult'.outcome = "HookFailure"
         /\ ~lcRunning'
         /\ ~kernelRunning']_vars

\* Microkernel.start() has been rejected after the first of two hooks of
\* "critical" failed, with four phases still to come
CriticalFailurePropagated ==
  /\ StartSettled({"HookFailure"})
  /\ lcResult.kernel
  /\ "critical" \in DOMAIN phases
  /\ phases["critical"].order = 1
  /\ Len(EnabledHooks("critical", FALSE)) = 2
  /\ HookIds(StartTrace) = <<EnabledHooks("critical", FALSE)[1].id>>
  /\ Len(PhaseEntries(StartTrace)) = 3
  /\ phaseStatus["critical"] = "error"
  /\ ~lcRunning
  /\ ~kernelRunning

\* ---- PluginRegistry: failures
\* the errorCount recorded for an id in a registry, 0 for an id it does not hold
ErrorCountIn(registry, id) ==
  IF id \in DOMAIN registry THEN registry[id].errorCount ELSE 0
\* the last call of registerPlugin / loadPlugin has settled with a failure
LoadFailed(ops, kinds) ==
  /\ PluginIdle(1)
  /\ plugResult.op \in ops
  /\ plugResult.outcome \in kinds

\* C21: when init fails during registerPlugin, the error is rethrown, the
\* plugin's status is error, and its errorCount is strictly greater than the
\* errorCount recorded for the id before the call
InitFailureCounted ==
  LoadFailed({"register"}, {"PluginInitFailure"}) =>
    /\ plugResult.id \in DOMAIN plugins
    /\ plugins[plugResult.id].status = "error"
    /\ plugins[plugResult.id].errorCount > ErrorCountIn(plugResult.before, plugResult.id)

\* C22: a registerPlugin(P) or loadPlugin(P) that fails, in dependency
\* validation or in init, leaves every other plugin's entry as it was before
\* the call, and adds or removes no other id
FailureIsolatedToPlugin ==
  LoadFailed({"register", "load"}, {"MissingDependency", "PluginInitFailure"}) =>
    /\ DOMAIN plugins = DOMAIN plugResult.before \cup {plugResult.id}
    /\ \A id \in DOMAIN plugResult.before \ {plugResult.id} :
         /\ plugins[id].status = plugResult.before[id].status
         /\ plugins[id].instance = plugResult.before[id].instance
         /\ plugins[id].errorCount = plugResult.before[id].errorCount

\* a registration has failed while another plugin was active with its instance
FailedBesideOthers ==
  /\ LoadFailed({"register", "load"}, {"MissingDependency", "PluginInitFailure"})
  /\ \E id \in DOMAIN plugins \ {plugResult.id} :
       /\ plugins[id].status = "active"
       /\ plugins[id].instance # Null

\* ---- ServiceContainer: concurrent callers
\* the ids of the resolve calls in progress on caller t's own chain
OwnChain(t) == {rstack[t][i].id : i \in 1..Len(rstack[t])}
\* this step is a top-level resolve that settles at once with `outcome`
TopLevelSettles(outcome) ==
  /\ svcResult'.n = svcResult.n + 1
  /\ svcResult'.op = "resolve"
  /\ svcResult'.outcome = outcome
\* this step is a nested resolve of caller t failing with `outcome`
NestedFails(t, outcome) ==
  /\ rstack[t] # <<>>
  /\ thrown[t] = "none"
  /\ thrown'[t] = outcome

\* C23: resolve(id) fails with CircularDependency only when it is nested
\* inside an in-progress resolution of the same id on the caller's own chain;
\* a top-level resolve, issued while another caller is suspended in the
\* factory of the same singleton, never does
CircularOnlyOnOwnChain ==
  [][/\ ~TopLevelSettles("CircularDependency")
     /\ \A t \in Tasks :
          NestedFails(t, "CircularDependency") =>
            services[RTop(t).id].dependencies[RTop(t).di + 1] \in OwnChain(t)]_vars

\* ---- Microkernel construction
\* C24: every Microkernel constructed in the process is constructed
\* successfully and has its six components registered under the fixed ids, and
\* getService on a fixed id resolves to the component of each constructed kernel
KernelConstruction ==
  /\ \A i \in 1..Len(kernels) : kernels[i].outcome = "ok"
  /\ (kernels # <<>> /\ rstack[1] = <<>>) => Range(CoreIds) \subseteq DOMAIN services
  /\ (svcResult.op = "resolve" /\ svcResult.outcome # "pending") =>
       /\ svcResult.outcome = "ok"
       /\ \A i \in 1..Len(kernels) : svcResult.v = Component(kernels[i], svcResult.id)

\* ---- Microkernel plugin operations
\* this step is a call of Microkernel.registerPlugin, loadPlugin or
\* unloadPlugin: it is now in progress, or it was rejected at once
KernelPluginCalled ==
  /\ kcall[1].op = "none"
  /\ \/ kcall'[1].op # "none"
     \/ kcall' = kcall /\ kplugResult'.n = kplugResult.n + 1

\* C25: registerPlugin, loadPlugin and unloadPlugin called on a Microkernel
\* that is not running fail with NotRunning, publish no event and leave the
\* plugin registry as it was
PluginOpsNeedRunningKernel ==
  [][(KernelPluginCalled /\ ~kernelRunning) =>
       /\ kcall' = kcall
       /\ kplugResult'.outcome = "NotRunning"
       /\ evType' = evType
       /\ plugins' = plugins
       /\ pluginKeys' = pluginKeys
       /\ pcall' = pcall]_vars

\* unloadPlugin of a registered plugin has been refused after the kernel
\* was stopped
RefusedAfterStop ==
  /\ kplugResult.op = "unload"
  /\ kplugResult.outcome = "NotRunning"
  /\ kplugResult.id \in DOMAIN plugins
  /\ plugins[kplugResult.id].status = "active"
  /\ ~kernelRunning
  /\ lcResult.op = "stop"

\* ---- ServiceContainer: resolution order
\* whether resolve(id) can succeed at all on the registered graph: id and all
\* it depends on are registered, no factory among them fails, no cycle
RECURSIVE Resolvable(_, _)
Resolvable(id, above) ==
  /\ id \in DOMAIN services
  /\ id \notin above
  /\ services[id].factory.kind # "throws"
  /\ \A i \in 1..Len(services[id].dependencies) :
       Resolvable(services[id].dependencies[i], above \cup {id})
\* resolve(id) has succeeded at least once
HasResolved(id) ==
  /\ Resolvable(id, {})
  /\ factoryCalls[id] > 0 \/ HasCachedInstance(services[id])
\* this step invokes a factory
FactoryInvoked == \E id \in DOMAIN factoryCalls : factoryCalls'[id] > factoryCalls[id]

\* C26: whenever a factory is invoked, on every resolve call of the chain in
\* progress the dependencies declared before the one being resolved have all
\* been resolved successfully, the nested call being for the dependency next
\* in declared order, and the invoked factory's own dependencies have all
\* been resolved successfully; a service with a dependency that cannot be
\* resolved never has its factory invoked
ResolutionOrder ==
  /\ [][FactoryInvoked =>
          \A p \in 1..Len(rstack[1]) :
            LET f == rstack[1][p]
                deps == services[f.id].dependencies
            IN IF p = Len(rstack[1])
               THEN /\ factoryCalls'[f.id] > factoryCalls[f.id]
                    /\ \A j \in 1..Len(deps) : HasResolved(deps[j])
               ELSE /\ f.di \in 1..Len(deps)
                    /\ rstack[1][p + 1].id = deps[f.di]
                    /\ \A j \in 1..(f.di - 1) : HasResolved(deps[j])]_vars
  /\ [](\A id \in DOMAIN services :
          factoryCalls[id] > 0 =>
            \A j \in 1..Len(services[id].dependencies) :
              Resolvable(services[id].dependencies[j], {id}))

\* resolve(A) has returned with A depending on C and B in that order, and B
\* on C
ResolvedInDeclaredOrder ==
  /\ svcResult.op = "resolve"
  /\ svcResult.id = "A"
  /\ svcResult.outcome = "ok"
  /\ "A" \in DOMAIN services
  /\ services["A"].dependencies = <<"C", "B">>
  /\ "B" \in DOMAIN services
  /\ services["B"].dependencies = <<"C">>
  /\ factoryCalls = [id \in DOMAIN factoryCalls |->
                       IF id \in OrderIds THEN 1 ELSE 0]

\* ---- ServiceContainer: validateDependencies
\* the services one dependency away from a service of S
Successors(S) == {b \in OrderIds : \E a \in S : DependsOn(a, b)}
\* the services some chain of one or more dependencies leads to from a
ReachableFrom(a) ==
  LET s1 == Successors({a})
      s2 == s1 \cup Successors(s1)
  IN s2 \cup Successors(s2)
\* the registered dependency graph has a directed cycle
HasCycle == \E a \in DOMAIN services : a \in ReachableFrom(a)
\* each id of c depends on the next, the last on the first
IsCycle(c) ==
  /\ Len(c) >= 1
  /\ \A i \in 1..Len(c) : DependsOn(c[i], c[(i % Len(c)) + 1])

\* C27: a validateDependencies() call returns valid = true exactly when the
\* registered dependency graph has no directed cycle, every cycle it reports
\* is a cycle of the graph, and the call leaves the registrations, the cached
\* instances and the resolving state as they were
ValidateDependenciesCorrect ==
  [][validation'.n # validation.n =>
       /\ validation'.valid = ~HasCycle
       /\ \A i \in 1..Len(validation'.cycles) : IsCycle(validation'.cycles[i])
       /\ services' = services
       /\ serviceKeys' = serviceKeys
       /\ resolving' = resolving
       /\ rstack' = rstack]_vars

\* validateDependencies has reported the cycle through three services while a
\* resolve call was waiting
ThreeCycleReported ==
  /\ validation.n > 0
  /\ ~validation.valid
  /\ \E i \in 1..Len(validation.cycles) : Len(validation.cycles[i]) = 3
  /\ resolving # {}

\* ---- EventBus: unsubscribe
\* the subscriptions the bus holds, exact-type and wildcard
AllSubscriptions ==
  Range(globalHandlers) \cup UNION {Range(handlers[ty]) : ty \in DOMAIN handlers}
\* handlers whose subscription has been removed
Unsubscribed == {h \in 1..Len(subOf) : subOf[h] \notin AllSubscriptions}

\* C28: an unsubscribe(id) call on an id some subscription carries, exact-type
\* or wildcard, removes one subscription with that id and nothing else and
\* returns true; on an id no subscription carries it returns false and leaves
\* the subscriptions as they were; a handler whose subscription was removed is
\* never invoked again
UnsubscribeRemoves ==
  [][/\ lastUnsub'.n # lastUnsub.n =>
          LET matching == {sub \in AllSubscriptions : sub.id = lastUnsub'.id}
          IN IF matching # {}
             THEN /\ lastUnsub'.ret
                  /\ \E sub \in matching : AllSubscriptions' = AllSubscriptions \ {sub}
             ELSE /\ ~lastUnsub'.ret
                  /\ handlers' = handlers
                  /\ globalHandlers' = globalHandlers
     /\ \A e \in DOMAIN invoked :
          invoked'[e] # invoked[e] =>
            invoked'[e][Len(invoked'[e])] \notin Unsubscribed]_vars

\* a wildcard subscription that had received an event was removed, and a later
\* event went to the remaining handler only
WildcardUnsubscribed ==
  /\ lastUnsub.ret
  /\ \E h \in Unsubscribed, e1 \in done, e2 \in done :
       /\ subOf[h].eventType = "*"
       /\ e1 < e2
       /\ h \in Range(invoked[e1])
       /\ h \notin Range(invoked[e2])
       /\ invoked[e2] # <<>>

\* ---- PluginRegistry: unload
\* the latest call, which has settled, was unloadPlugin
UnloadSettled == PluginIdle(1) /\ plugResult.op = "unload"

\* C29: unloadPlugin(id) on an id the registry does not know returns false,
\* publishes nothing and leaves the registry as it was; on a known id the
\* entry is set to unloaded with a null instance only once the instance's
\* cleanup, if there is one, has returned, and the call returns true; when
\* cleanup fails the call fails with that error and the entry's status and
\* instance are what they were before the call
UnloadProtocol ==
  /\ [](UnloadSettled =>
          LET id == plugResult.id
              before == plugResult.before
          IN IF id \notin DOMAIN before
             THEN plugResult.outcome = "false" /\ plugins = before
             ELSE /\ plugResult.outcome \in {"true", "CleanupFailure"}
                  /\ plugResult.outcome = "true" =>
                       /\ plugins[id].status = "unloaded"
                       /\ plugins[id].instance = Null
                       /\ before[id].instance.cleanup # "throws"
                  /\ plugResult.outcome = "CleanupFailure" =>
                       /\ plugins[id].status = before[id].status
                       /\ plugins[id].instance = before[id].instance
                       /\ before[id].instance.cleanup = "throws")
  /\ [][/\ (plugResult'.n # plugResult.n /\ plugResult'.op = "unload"
              /\ plugResult'.id \notin DOMAIN plugins)
             => /\ plugResult'.outcome = "false"
                /\ plugins' = plugins
                /\ pluginKeys' = pluginKeys
                /\ evType' = evType
                /\ eventHistory' = eventHistory
        /\ (pcall[1].op = "unload" /\ plugins' # plugins)
             => /\ plugins'[pcall[1].id].status = "unloaded"
                /\ plugins'[pcall[1].id].instance = Null
                /\ plugins[pcall[1].id].instance.cleanup # "none"
                     => /\ pcall[1].pc = "cleaning"
                        /\ pcall[1].instance.cleanup = "ok"]_vars

\* unloadPlugin has failed in cleanup and the plugin is still active with its
\* instance
CleanupFailureKeepsPlugin ==
  /\ UnloadSettled
  /\ plugResult.outcome = "CleanupFailure"
  /\ plugins[plugResult.id].status = "active"
  /\ plugins[plugResult.id].instance # Null

\* ---- LifecycleManager: per-phase status
\* the recorded status of a phase; a phase without an entry counts as pending
StatusOf(status, name) == IF name \in DOMAIN status THEN status[name] ELSE "pending"

\* C30: the recorded status of a phase changes only from pending to running,
\* from running to completed and from running to error, so a phase that has
\* reached completed or error is never set back to running
PhaseStatusTransitions ==
  [][\A name \in DOMAIN phaseStatus' :
       StatusOf(phaseStatus', name) # StatusOf(phaseStatus, name) =>
         <<StatusOf(phaseStatus, name), StatusOf(phaseStatus', name)>> \in
           {<<"pending", "running">>, <<"running", "completed">>,
            <<"running", "error">>}]_vars

\* ---- LifecycleManager: shutdown
\* position of the hook with this id in the hook list of its phase
PositionIn(list, id) == CHOOSE k \in 1..Len(list) : list[k].id = id
\* this step is the return or the rejection of a stop() that had entered its
\* phases
StopSettles ==
  /\ lcall[1].op = "stop"
  /\ lcall'[1].op = "none"
  /\ StopTrace # <<>>

\* C31: when a stop() that entered its phases settles, isRunning is false;
\* unless a hook of the phase named "critical" failed in it, it has returned
\* normally after entering every registered phase once, in descending order
\* value, and invoking every enabled hook once, inside its phase and in the
\* reverse of the phase's hook list, failing hooks included
ShutdownCompletes ==
  [][StopSettles =>
       LET ph == PhaseEntries(StopTrace)
           inv == Invocations(StopTrace)
       IN /\ ~lcRunning'
          /\ lcResult'.op = "stop"
          /\ "critical" \notin FailedIn(StopTrace) =>
               /\ lcResult'.outcome = "ok"
               /\ {ph[i].phase : i \in 1..Len(ph)} = DOMAIN phases
               /\ \A i, j \in 1..Len(ph) :
                    i < j => /\ ph[i].phase # ph[j].phase
                             /\ phases[ph[i].phase].order >= phases[ph[j].phase].order
               /\ {inv[i].hook : i \in 1..Len(inv)} = EnabledHookIds
               /\ \A i, j \in 1..Len(inv) :
                    i < j => /\ inv[i].hook # inv[j].hook
                             /\ inv[i].phase = inv[j].phase =>
                                  PositionIn(HooksOf(inv[i].phase), inv[i].hook)
                                    > PositionIn(HooksOf(inv[j].phase), inv[j].hook)
               /\ \A i \in 1..Len(inv) :
                    HookById(inv[i].hook) \in Range(HooksOf(inv[i].phase))]_vars

\* stop() has returned with isRunning false although the first hook it invoked
\* in a phase failed, the other hook of the phase having run after it
ShutdownSurvivedHookFailure ==
  /\ LifecycleIdle(1)
  /\ lcResult.op = "stop"
  /\ lcResult.outcome = "ok"
  /\ ~lcRunning
  /\ RanToCompletion(StopTrace)
  /\ \E i, j \in 1..Len(StopTrace) :
       /\ i < j
       /\ StopTrace[i].k = "hookError"
       /\ StopTrace[j].k = "hook"
       /\ StopTrace[j].phase = StopTrace[i].phase

\* ---- EventBus: eventual delivery
\* C32: every published event is eventually delivered, its handler loops run
\* to their end, whether it was processed inline or queued; a delivered event
\* has invoked the handlers subscribed for it; and the pending queue is empty
\* whenever isProcessing is false or no delivery is in progress
EventualDelivery ==
  /\ \A e \in 1..MaxLiveEvents : (Len(evType) >= e) ~> (e \in done)
  /\ [](\A e \in done : Range(invoked[e]) = Listeners(evType[e]))
  /\ []((~isProcessing \/ Idle) => pendingEvents = <<>>)

\* an event that was queued behind another caller's delivery has been
\* delivered to the subscribed handler, and the bus has come to rest
QueuedEventDelivered ==
  /\ Idle
  /\ pendingEvents = <<>>
  /\ \E e \in queued :
       /\ parent[e] = 0
       /\ e \in done
       /\ invoked[e] # <<>>

\* ---- EventBus: subscription changes during a delivery
\* how many times handler h has been invoked for event e
TimesInvoked(e, h) == Cardinality({i \in 1..Len(invoked[e]) : invoked[e][i] = h})

\* C33: once an event's delivery is complete, every handler that was
\* subscribed for it when the delivery began and has not been unsubscribed
\* has been invoked exactly once for it, whatever subscribe and unsubscribe
\* calls were made during the delivery
SubscribedAtStartInvokedOnce ==
  \A e \in done :
    \A h \in subsAtStart[e] \ Unsubscribed : TimesInvoked(e, h) = 1

\* ---- ServiceContainer: the resolving set
NoResolveCall == \A t \in Tasks : rstack[t] = <<>>
\* id is on a dependency cycle or depends, directly or not, on a service that is
OnCycle(id) == \E a \in {id} \cup ReachableFrom(id) : a \in ReachableFrom(a)

\* C34: whenever no resolve call is in progress the resolving set is empty,
\* whatever the outcomes of the resolve calls made so far; and a resolve call
\* fails with CircularDependency only for a service that is on a dependency
\* cycle or depends on one
ResolvingRestored ==
  /\ NoResolveCall => resolving = {}
  /\ (NoResolveCall /\ svcResult.op = "resolve"
        /\ svcResult.outcome = "CircularDependency") => OnCycle(svcResult.id)

\* after a resolve that failed in the factory of B, a service that depends on
\* nothing failing has been resolved
ResolvedAfterFailure ==
  /\ NoResolveCall
  /\ svcResult.op = "resolve"
  /\ svcResult.outcome = "ok"
  /\ ~OnCycle(svcResult.id)
  /\ "B" \in DOMAIN services
  /\ services["B"].factory.kind = "throws"
  /\ factoryCalls["B"] > 0
  /\ "B" \notin ReachableFrom(svcResult.id)

\* ---- ServiceContainer: failed resolutions
\* this step is a top-level resolve(id) call
ResolveCalled(id) ==
  /\ svcResult'.n = svcResult.n + 1
  /\ svcResult'.op = "resolve"
  /\ svcResult'.id = id

\* C35: a service whose factory fails, or one of whose dependencies cannot be
\* resolved, never holds a cached instance and isResolved stays false for it;
\* a resolve call that has failed leaves no instance cached; and a resolve
\* call on a registered singleton without a cached instance always enters
\* the resolution again, whatever happened to earlier calls
FailedResolutionNotCached ==
  /\ [](\A id \in DOMAIN services :
          (\/ services[id].factory.kind = "throws"
           \/ \E j \in 1..Len(services[id].dependencies) :
                ~Resolvable(services[id].dependencies[j], {id}))
            => services[id].instance = Undefined /\ ~IsResolved(id))
  /\ []((NoResolveCall /\ svcResult.op = "resolve"
           /\ svcResult.outcome \notin {"ok", "pending"}
           /\ svcResult.id \in DOMAIN services)
          => services[svcResult.id].instance = Undefined /\ ~IsResolved(svcResult.id))
  /\ [][\A id \in DOMAIN services :
          (ResolveCalled(id) /\ NoResolveCall /\ services[id].instance = Undefined)
            => /\ svcResult'.outcome = "pending"
               /\ id \in resolving'
               /\ rstack'[1] = <<RFrame(id)>>]_vars

\* the failing factory of a singleton has been invoked by two resolve calls,
\* both rejected
FactoryTriedAgain ==
  /\ NoResolveCall
  /\ svcResult.op = "resolve"
  /\ svcResult.outcome = "FactoryError"
  /\ services[svcResult.id].singleton
  /\ services[svcResult.id].factory.kind = "throws"
  /\ factoryCalls[svcResult.id] = 2
  /\ ~IsResolved(svcResult.id)

\* ---- PluginRegistry: concurrent registrations
\* a registerPlugin call for id is suspended in the plugin's init
InitSuspended(t, id) ==
  pcall[t].op = "register" /\ pcall[t].pc = "init" /\ pcall[t].id = id

\* C36: while a registerPlugin call is suspended in the plugin's init, the
\* plugin does not have status active in what getAllPlugins returns, and no
\* other registerPlugin call that names it as a dependency has got past the
\* validation of its dependencies
NotActiveBeforeInit ==
  \A t \in Tasks, id \in PluginIds :
    InitSuspended(t, id) =>
      /\ \A i \in 1..Len(GetAllPlugins) :
           pluginKeys[i] = id => GetAllPlugins[i].status # "active"
      /\ \A u \in Tasks \ {t} :
           (pcall[u].op = "register" /\ id \in Range(pcall[u].manifest))
             => pcall[u].pc \in {"validate", "failed"}

\* ---- LifecycleManager: concurrent start and stop
\* the call of caller t is between the entry of its first phase and the end
\* of its last
InPhases(t) ==
  /\ lcall[t].op \in {"start", "stop"}
  /\ lcall[t].pc \in {"phase", "hook", "hookDone", "hookFailed", "phaseDone", "phaseFailed"}

\* C37: at every moment at most one phase has status running, and at most one
\* call of start() or stop() is executing phases
StartStopDoNotOverlap ==
  /\ Cardinality({name \in DOMAIN phaseStatus : phaseStatus[name] = "running"}) <= 1
  /\ \A t, u \in Tasks : (t # u /\ InPhases(t)) => ~InPhases(u)

\* ---- PluginRegistry: status and instance
\* C38: in every state of the registry a plugin whose status is active has an
\* instance that is not null, and a plugin whose status is unloaded or error
\* has a null instance
ActiveImpliesInstance ==
  \A id \in DOMAIN plugins :
    /\ plugins[id].status = "active" => plugins[id].instance # Null
    /\ plugins[id].status \in {"unloaded", "error"} => plugins[id].instance = Null

\* ---- Microkernel: isRunning of the kernel and of its LifecycleManager
\* no start() or stop() of the Microkernel is in progress, and the
\* LifecycleManager has been driven through the Microkernel only
NoKernelCallInProgress ==
  /\ \A t \in Tasks : lcall[t].op = "none"
  /\ lcResult.n = 0 \/ lcResult.kernel

====
